---- MODULE Spec2Model ----
(***************************************************************************)
(* A model of the chiller digital twin's domain core:                      *)
(*   - core/validators.py    PhysicsGuard (the validation guard)           *)
(*   - core/health_score.py  HealthScoreEngine (the health scorer)         *)
(*   - core/physics.py       PhysicsCalculator (the metric deriver)        *)
(*   - api/routes/ingest.py  process_sensor_data (the ingest pipeline)     *)
(*   - engine/generator.py, engine/failure_scenarios.py (scenario engine)  *)
(*                                                                         *)
(* Numbers.  Every physical quantity is a fixed-point integer in           *)
(* thousandths of its unit (6.7 degC is 6700, 0.35 kW/ton is 350).         *)
(* Python's None is the empty tuple <<>>, a number n is the tuple <<n>>,   *)
(* and a dict is a function whose DOMAIN is the set of its keys, so that a *)
(* key that is absent and a key whose value is None stay distinct, as they *)
(* are for dict.get(key, default).                                         *)
(***************************************************************************)
EXTENDS Integers, Sequences, FiniteSets, TLC

VARIABLES
    reading,      \* the dict handed to PhysicsGuard.validate
    verdicts,     \* per guard instance (normal, strict): what validate did
    weights,      \* HealthScoreEngine.weights, an ordered map
    metrics,      \* the dict handed to HealthScoreEngine.calculate
    health,       \* what calculate returned
    sensor_input, \* the SensorDataInput handed to process_sensor_data
    response,     \* the IngestResponse
    db_rows,      \* rows inserted through DatabaseManager.insert_sensor_data
    calls,        \* the core operations process_sensor_data invoked, in order
    rng,          \* the state of the module-level generator of `random`
    gens,         \* the ChillerDataGenerator instances
    outputs,      \* per instance, how it was built and every call made on it
    score_input,  \* the (metric_name, value) handed to _score_metric
    score_output, \* what _score_metric returned
    physics_input,  \* the (delta_t, power_kw, chw_flow_gpm) handed to the calculator
    physics_output, \* the cooling tons, kW/ton and COP it returned
    batch         \* the generate_batch call in progress: its arguments and locals

vars == <<reading, verdicts, weights, metrics, health, sensor_input,
          response, db_rows, calls, rng, gens, outputs,
          score_input, score_output, physics_input, physics_output, batch>>

guardVars == <<reading, verdicts>>
healthVars == <<weights, metrics, health>>
ingestVars == <<sensor_input, response, db_rows, calls>>
genVars == <<rng, gens, outputs, batch>>
scoreVars == <<score_input, score_output>>
physicsVars == <<physics_input, physics_output>>

(***************************************************************************)
(* Python values                                                           *)
(***************************************************************************)
None == <<>>

Num(n) == <<n>>

IsNone(x) == x = <<>>

\* dict.get(key): None when the key is absent
Get(d, k) == IF k \in DOMAIN d THEN d[k] ELSE None

\* dict.get(key, default)
GetDefault(d, k, dflt) == IF k \in DOMAIN d THEN d[k] ELSE Num(dflt)

Abs(x) == IF x < 0 THEN -x ELSE x

Max(a, b) == IF a >= b THEN a ELSE b

Min(a, b) == IF a <= b THEN a ELSE b

\* one unit (1.0) in thousandths
Unit == 1000

\* round(x, ndigits) of a value in thousandths, to a multiple of `step`
\* thousandths, ties to the even multiple (Python's round)
RoundTo(x, step) ==
    LET q == x \div step
        r == x % step
    IN  IF 2 * r < step THEN q * step
        ELSE IF 2 * r > step THEN (q + 1) * step
        ELSE IF q % 2 = 0 THEN q * step ELSE (q + 1) * step

(***************************************************************************)
(* PhysicsGuard (core/validators.py)                                       *)
(***************************************************************************)
Issue(sev, rule, msg, metric, value) ==
    [severity |-> sev, rule_name |-> rule, message |-> msg,
     metric_name |-> metric, actual_value |-> value]

When(cond, issue) == IF cond THEN <<issue>> ELSE <<>>

typical_ranges ==
    << [metric |-> "chw_supply_temp", rule |-> "chw_supply_temp_typical_range", min |-> 4000,   max |-> 12000],
       [metric |-> "chw_return_temp", rule |-> "chw_return_temp_typical_range", min |-> 8000,   max |-> 18000],
       [metric |-> "cdw_inlet_temp", rule |-> "cdw_inlet_temp_typical_range",  min |-> 18000,  max |-> 38000],
       [metric |-> "cdw_outlet_temp", rule |-> "cdw_outlet_temp_typical_range", min |-> 23000,  max |-> 45000],
       [metric |-> "ambient_temp", rule |-> "ambient_temp_typical_range",    min |-> -10000, max |-> 50000],
       [metric |-> "vibration_rms", rule |-> "vibration_rms_typical_range",   min |-> 0,      max |-> 15000],
       [metric |-> "power_kw", rule |-> "power_kw_typical_range",        min |-> 0,      max |-> 2000000],
       [metric |-> "load_percent", rule |-> "load_percent_typical_range",    min |-> 0,      max |-> 100000],
       [metric |-> "kw_per_ton", rule |-> "kw_per_ton_typical_range",      min |-> 350,    max |-> 1500],
       [metric |-> "approach_temp", rule |-> "approach_temp_typical_range",   min |-> 500,    max |-> 10000],
       [metric |-> "phase_imbalance", rule |-> "phase_imbalance_typical_range", min |-> 0,      max |-> 15000],
       [metric |-> "delta_t", rule |-> "delta_t_typical_range",         min |-> 1500,   max |-> 12000] >>

_validate_thermal_directionality(data) ==
    LET chw_supply == Get(data, "chw_supply_temp")
        chw_return == Get(data, "chw_return_temp")
        cdw_inlet  == Get(data, "cdw_inlet_temp")
        cdw_outlet == Get(data, "cdw_outlet_temp")
    IN  When(~IsNone(chw_supply) /\ ~IsNone(chw_return)
                /\ chw_return[1] <= chw_supply[1],
             Issue("error", "chw_thermal_direction",
                   <<"Chilled water return must be warmer than supply (heat is absorbed from building)">>,
                   "chw_return_temp", chw_return))
        \o
        When(~IsNone(cdw_inlet) /\ ~IsNone(cdw_outlet)
                /\ cdw_outlet[1] <= cdw_inlet[1],
             Issue("error", "cdw_thermal_direction",
                   <<"Condenser water outlet must be warmer than inlet (heat is rejected to cooling tower)">>,
                   "cdw_outlet_temp", cdw_outlet))

CurrentIssue(data, phase) ==
    LET current == Get(data, phase)
    IN  When(~IsNone(current) /\ current[1] < 0,
             Issue("error",
                   CASE phase = "current_r" -> "current_r_non_negative"
                     [] phase = "current_y" -> "current_y_non_negative"
                     [] OTHER -> "current_b_non_negative",
                   <<"Current (", phase, ") cannot be negative">>,
                   phase, current))

_validate_absolute_bounds(data) ==
    LET load_percent  == Get(data, "load_percent")
        power_kw      == Get(data, "power_kw")
        vibration_rms == Get(data, "vibration_rms")
        runtime_hours == Get(data, "runtime_hours")
    IN  (IF IsNone(load_percent) THEN <<>>
         ELSE IF load_percent[1] < 0
              THEN <<Issue("error", "load_percent_negative",
                           <<"Load percent cannot be negative">>,
                           "load_percent", load_percent)>>
         ELSE IF load_percent[1] > 100 * Unit
              THEN <<Issue("error", "load_percent_over_100",
                           <<"Load percent cannot exceed 100%">>,
                           "load_percent", load_percent)>>
         ELSE <<>>)
        \o
        When(~IsNone(power_kw) /\ power_kw[1] < 0,
             Issue("error", "power_non_negative",
                   <<"Power consumption cannot be negative">>,
                   "power_kw", power_kw))
        \o
        When(~IsNone(vibration_rms) /\ vibration_rms[1] < 0,
             Issue("error", "vibration_non_negative",
                   <<"Vibration RMS cannot be negative">>,
                   "vibration_rms", vibration_rms))
        \o CurrentIssue(data, "current_r")
        \o CurrentIssue(data, "current_y")
        \o CurrentIssue(data, "current_b")
        \o
        When(~IsNone(runtime_hours) /\ runtime_hours[1] < 0,
             Issue("error", "runtime_non_negative",
                   <<"Runtime hours cannot be negative">>,
                   "runtime_hours", runtime_hours))

\* `delta_t is not None and power_kw > 10`: the comparison is evaluated only
\* when delta_t is a number, and raises TypeError when power_kw is None
\* (the key is present with the value None, so the default 0 is not used).
DerivedRaises(data) ==
    /\ ~IsNone(Get(data, "delta_t"))
    /\ IsNone(GetDefault(data, "power_kw", 0))

_validate_derived_metrics(data) ==
    LET approach_temp == Get(data, "approach_temp")
        delta_t       == Get(data, "delta_t")
        power_kw      == GetDefault(data, "power_kw", 0)
    IN  When(~IsNone(approach_temp) /\ approach_temp[1] < 0,
             Issue("error", "approach_non_negative",
                   <<"Approach temperature cannot be negative">>,
                   "approach_temp", approach_temp))
        \o
        When(~IsNone(delta_t) /\ ~IsNone(power_kw)
                /\ power_kw[1] > 10 * Unit /\ delta_t[1] <= 0,
             Issue("error", "delta_t_positive_when_running",
                   <<"Delta-T must be positive when chiller is running">>,
                   "delta_t", delta_t))

\* `power_kw == 0` is False for None; `vibration > 5.0` is evaluated only
\* when power_kw == 0 and raises TypeError when vibration is None.
OperationalRaises(data) ==
    /\ GetDefault(data, "power_kw", 0) = Num(0)
    /\ IsNone(GetDefault(data, "vibration_rms", 0))

_validate_operational_consistency(data) ==
    LET power_kw     == GetDefault(data, "power_kw", 0)
        load_percent == Get(data, "load_percent")
        vibration    == GetDefault(data, "vibration_rms", 0)
    IN  When(power_kw = Num(0) /\ ~IsNone(load_percent)
                /\ load_percent[1] > 10 * Unit,
             Issue("warning", "power_load_consistency",
                   <<"Load percent is high but power consumption is zero">>,
                   "load_percent", load_percent))
        \o
        When(power_kw = Num(0) /\ ~IsNone(vibration)
                /\ vibration[1] > 5 * Unit,
             Issue("warning", "power_vibration_consistency",
                   <<"High vibration detected but power is zero (chiller should be off)">>,
                   "vibration_rms", vibration))

\* deviation_factor > 0.5, with deviation_factor = distance / max(|bound|, 1)
DeviationSeverity(distance, bound) ==
    IF 2 * distance > Max(Abs(bound), Unit) THEN "warning" ELSE "info"

TypicalRangeIssue(data, range) ==
    LET value == Get(data, range.metric)
    IN  IF IsNone(value) THEN <<>>
        ELSE IF value[1] < range.min
             THEN <<Issue(DeviationSeverity(range.min - value[1], range.min),
                          range.rule,
                          <<range.metric, " is outside typical operating range">>,
                          range.metric, Num(RoundTo(value[1], 10)))>>
        ELSE IF value[1] > range.max
             THEN <<Issue(DeviationSeverity(value[1] - range.max, range.max),
                          range.rule,
                          <<range.metric, " is outside typical operating range">>,
                          range.metric, Num(RoundTo(value[1], 10)))>>
        ELSE <<>>

RECURSIVE TypicalRangeLoop(_, _)
TypicalRangeLoop(data, i) ==
    IF i > Len(typical_ranges) THEN <<>>
    ELSE TypicalRangeIssue(data, typical_ranges[i]) \o TypicalRangeLoop(data, i + 1)

_validate_typical_ranges(data) ==
    LET kw_per_ton == Get(data, "kw_per_ton")
    IN  TypicalRangeLoop(data, 1)
        \o
        (IF ~IsNone(kw_per_ton) /\ kw_per_ton[1] > 0
         THEN IF kw_per_ton[1] < 350
              THEN <<Issue("warning", "kw_per_ton_too_efficient",
                           <<"kW/ton is suspiciously low - efficiency appears too good to be true">>,
                           "kw_per_ton", Num(RoundTo(kw_per_ton[1], 1)))>>
              ELSE IF kw_per_ton[1] > 1500
              THEN <<Issue("warning", "kw_per_ton_very_poor",
                           <<"kW/ton is very high - poor efficiency">>,
                           "kw_per_ton", Num(RoundTo(kw_per_ton[1], 1)))>>
              ELSE <<>>
         ELSE <<>>)

HasSeverity(issues, sev) == \E i \in 1..Len(issues) : issues[i].severity = sev

\* mutant of PromoteWarnings: the promotion is applied to copies of the
\* issues, so that the returned list keeps its warnings
PromoteWarnings_OnCopies(issues) == issues

\* strict mode: `for w in warnings: w.severity = ERROR` changes the issue
\* objects that the returned list holds
PromoteWarnings(issues) ==
    [i \in 1..Len(issues) |->
        IF issues[i].severity = "warning"
        THEN [issues[i] EXCEPT !.severity = "error"]
        ELSE issues[i]]

Returned(valid, st, issues) ==
    [outcome |-> "returned", is_valid |-> valid, status |-> st, issues |-> issues]

Raised(exc) ==
    [outcome |-> "raised", is_valid |-> FALSE, status |-> exc, issues |-> <<>>]

NotCalled ==
    [outcome |-> "not_called", is_valid |-> FALSE, status |-> "", issues |-> <<>>]

\* mutant of Classify: strict mode promotes the warnings before it looks
\* for errors, so that a rejected reading's warnings are rewritten too
Classify_PromoteFirst(issues, strict_mode) ==
    LET promoted == IF strict_mode THEN PromoteWarnings(issues) ELSE issues
    IN  IF HasSeverity(promoted, "error")
        THEN Returned(FALSE, "rejected", promoted)
        ELSE IF HasSeverity(promoted, "warning")
        THEN Returned(TRUE, "accepted_with_warnings", promoted)
        ELSE Returned(TRUE, "accepted", promoted)

Classify(issues, strict_mode) ==
    IF HasSeverity(issues, "error")
    THEN Returned(FALSE, "rejected", issues)
    ELSE IF HasSeverity(issues, "warning")
    THEN IF strict_mode
         THEN Returned(FALSE, "rejected", PromoteWarnings(issues))
         ELSE Returned(TRUE, "accepted_with_warnings", issues)
    ELSE Returned(TRUE, "accepted", issues)

\* mutant of validate: the typical ranges are checked first
validate_TypicalRangesFirst(data, strict_mode) ==
    IF DerivedRaises(data) \/ OperationalRaises(data)
    THEN Raised("TypeError")
    ELSE Classify(_validate_typical_ranges(data)
                  \o _validate_thermal_directionality(data)
                  \o _validate_absolute_bounds(data)
                  \o _validate_derived_metrics(data)
                  \o _validate_operational_consistency(data),
                  strict_mode)

validate(data, strict_mode) ==
    IF DerivedRaises(data) \/ OperationalRaises(data)
    THEN Raised("TypeError")
    ELSE Classify(_validate_thermal_directionality(data)
                  \o _validate_absolute_bounds(data)
                  \o _validate_derived_metrics(data)
                  \o _validate_operational_consistency(data)
                  \o _validate_typical_ranges(data),
                  strict_mode)

(***************************************************************************)
(* The guard's state machine: a reading, and two guard instances           *)
(* (PhysicsGuard() and PhysicsGuard(strict_mode=True)) validating it.      *)
(***************************************************************************)
\* at most this many keys in a reading handed to the guard
MaxFields == 3

FieldValues ==
    [chw_supply_temp |-> {6700, 12200},
     chw_return_temp |-> {6700, 12200},
     cdw_inlet_temp  |-> {29400, 35000},
     cdw_outlet_temp |-> {29400, 35000},
     ambient_temp    |-> {25000, 80000},
     vibration_rms   |-> {-1000, 2000, 8000},
     power_kw        |-> {-100000, 0, 280000},
     load_percent    |-> {-5000, 80000, 120000},
     kw_per_ton      |-> {0, 300, 600, 2000},
     approach_temp   |-> {-1000, 2500},
     phase_imbalance |-> {1000, 30000},
     delta_t         |-> {-1000, 0, 5500},
     current_r       |-> {-5000, 200000},
     current_y       |-> {-5000, 200000},
     current_b       |-> {-5000, 200000},
     runtime_hours   |-> {-1000, 15000000}]

GuardFields == DOMAIN FieldValues

\* a value of a field: None or one of its numbers
Values(f) == {None} \cup {Num(n) : n \in FieldValues[f]}

\* the dicts over `keys` with at most n keys, each key k holding one of
\* options[k]
RECURSIVE DictsOver(_, _, _)
DictsOver(keys, n, options) ==
    IF keys = {} \/ n = 0 THEN {<<>>}
    ELSE LET k == CHOOSE x \in keys : TRUE
             rest == keys \ {k}
         IN  DictsOver(rest, n, options)
             \cup UNION { {(k :> v) @@ d : v \in options[k]} :
                          d \in DictsOver(rest, n - 1, options) }

\* the dicts with at most n keys
Readings(n) == DictsOver(GuardFields, n, [f \in GuardFields |-> Values(f)])

Guards == {"normal", "strict"}

strict_mode(g) == g = "strict"

\* guard.validate(reading) on the guard instance g
Validate(g) ==
    /\ verdicts[g].outcome = "not_called"
    /\ verdicts' = [verdicts EXCEPT ![g] = validate(reading, strict_mode(g))]
    /\ UNCHANGED <<reading, healthVars, ingestVars, genVars, scoreVars, physicsVars>>

(***************************************************************************)
(* HealthScoreEngine (core/health_score.py)                                *)
(*                                                                         *)
(* A weight is an integer number of twentieths (0.35 is 7).  A score is an *)
(* integer number of 1/ScoreScale points: ScoreScale is the least scale    *)
(* that makes every slope of the default scoring curves an integer, so     *)
(* that the piecewise-linear scores of values in thousandths are exact.    *)
(* overall_score, a quotient, is kept as the fraction it is computed from. *)
(***************************************************************************)
ScoreScale == 132000

Points(n) == n * ScoreScale

\* HealthScoreEngine.__init__: the default weights, in the dict's order
DefaultWeights ==
    << [name |-> "vibration_rms",   weight |-> 7],
       [name |-> "approach_temp",   weight |-> 5],
       [name |-> "phase_imbalance", weight |-> 4],
       [name |-> "kw_per_ton",      weight |-> 3],
       [name |-> "delta_t",         weight |-> 1] >>

\* `weights or {...}`: None and the empty dict both select the defaults
EngineWeights(given) == IF given = <<>> THEN DefaultWeights ELSE given

thresholds ==
    [vibration_rms |->
        [excellent |-> 2000, good |-> 4000, fair |-> 7000, poor |-> 11000,
         unit |-> "mm/s", direction |-> "lower_better",
         description |-> "Mechanical vibration level"],
     approach_temp |->
        [excellent |-> 2000, good |-> 3000, fair |-> 4500, poor |-> 6000,
         unit |-> "degC", direction |-> "lower_better",
         description |-> "Condenser heat transfer efficiency"],
     phase_imbalance |->
        [excellent |-> 1000, good |-> 2000, fair |-> 3500, poor |-> 5000,
         unit |-> "%", direction |-> "lower_better",
         description |-> "Electrical supply balance"],
     kw_per_ton |->
        [excellent |-> 550, good |-> 700, fair |-> 850, poor |-> 1000,
         unit |-> "kW/ton", direction |-> "lower_better",
         description |-> "Energy efficiency"],
     delta_t |->
        [target |-> 5500, excellent |-> 1000, good |-> 2000, fair |-> 3500,
         poor |-> 5000,
         unit |-> "degC", direction |-> "target_range",
         description |-> "Chilled water temperature differential"]]

recommendations_db ==
    [vibration_rms |->
        [fair |-> <<"Schedule vibration analysis within 2 weeks", "Check bearing lubrication levels", "Inspect visible components for looseness">>,
         poor |-> <<"Schedule vibration analysis within 1 week", "Check bearing condition - listen for unusual sounds", "Verify coupling alignment", "Review maintenance history for recent changes">>,
         critical |-> <<"URGENT: Reduce load immediately", "Schedule emergency inspection within 24-48 hours", "Prepare for potential bearing replacement", "Check for loose mounting bolts or foundation issues", "Document vibration readings for trending">>],
     approach_temp |->
        [fair |-> <<"Schedule condenser inspection within 1 month", "Check condenser water flow rate", "Verify cooling tower performance">>,
         poor |-> <<"Schedule condenser tube cleaning within 2 weeks", "Check for scaling or biological growth", "Verify water treatment program effectiveness", "Check refrigerant charge">>,
         critical |-> <<"URGENT: Condenser severely fouled", "Schedule immediate tube cleaning", "Check for non-condensables (air) in system", "Verify refrigerant charge and purity", "Estimated energy waste: 15-25%">>],
     phase_imbalance |->
        [fair |-> <<"Check utility power quality", "Inspect main electrical connections", "Verify power factor correction equipment">>,
         poor |-> <<"Schedule electrical inspection within 1 week", "Check for loose terminal connections", "Verify all three phases at motor terminals", "Check for single-phasing protection">>,
         critical |-> <<"URGENT: Motor damage risk - reduce load", "Immediate electrical inspection required", "Check for single-phasing condition", "Verify utility power quality", "Motor life may be reduced by 50%+ at this imbalance">>],
     kw_per_ton |->
        [fair |-> <<"Compare to baseline/design efficiency", "Check operating conditions vs design", "Review control sequences">>,
         poor |-> <<"Full efficiency audit recommended", "Check refrigerant charge level", "Verify all heat exchangers are clean", "Review control system operation">>,
         critical |-> <<"Major efficiency degradation", "Full diagnostic inspection required", "Check compressor condition", "Verify refrigerant charge and oil level", "Estimated excess energy cost: significant">>],
     delta_t |->
        [fair |-> <<"Check chilled water flow rate", "Verify control valve operation", "Review building load distribution">>,
         poor |-> <<"Check pump operation and speed", "Verify no air in chilled water system", "Check for bypass or three-way valve issues", "Review chilled water reset schedule">>,
         critical |-> <<"System balance issue", "Check all pumps for proper operation", "Verify no major leaks or bypasses", "Review entire chilled water distribution">>]]

Scored(score, status, message) ==
    [score |-> Min(Points(100), Max(0, score)), status |-> status,
     message |-> message]

\* The five bands shared by both scoring directions: x is the value
\* (lower-is-better) or the deviation from the target (target-range).
\* Each slope, such as 5.0 / excellent, is an exact multiple of 1/ScoreScale.
BandScore(x, th) ==
    IF x <= th.excellent
    THEN [score |-> IF th.excellent > 0
                    THEN Points(100) - (Points(5) \div th.excellent) * x
                    ELSE Points(100),
          status |-> "excellent"]
    ELSE IF x <= th.good
    THEN [score |-> Points(90)
                    - (Points(15) \div (th.good - th.excellent)) * (x - th.excellent),
          status |-> "good"]
    ELSE IF x <= th.fair
    THEN [score |-> Points(75)
                    - (Points(20) \div (th.fair - th.good)) * (x - th.good),
          status |-> "fair"]
    ELSE IF x <= th.poor
    THEN [score |-> Points(55)
                    - (Points(25) \div (th.poor - th.fair)) * (x - th.fair),
          status |-> "poor"]
    ELSE [score |-> IF th.poor > 0
                    THEN Max(0, Points(30)
                                - (Points(30) \div th.poor) * Min(x - th.poor, th.poor))
                    ELSE 0,
          status |-> "critical"]

StatusSuffix(status, lower_better) ==
    CASE status = "fair" ->
            IF lower_better THEN " - Monitor closely" ELSE " - Outside optimal range"
      [] status = "poor" ->
            IF lower_better THEN " - Action recommended" ELSE " - Investigate"
      [] status = "critical" ->
            IF lower_better THEN " - Immediate action required" ELSE " - System issue"
      [] OTHER -> ""

\* mutant of _score_lower_better: a critical value keeps its 30 points
_score_lower_better_FlatCritical(value, th) ==
    LET b == BandScore(value, th)
    IN  Scored(IF b.status = "critical" THEN Points(30) ELSE b.score, b.status,
               <<b.status, th.description, value, th.unit,
                 StatusSuffix(b.status, TRUE)>>)

_score_lower_better(value, th) ==
    LET b == BandScore(value, th)
    IN  Scored(b.score, b.status,
               <<b.status, th.description, value, th.unit,
                 StatusSuffix(b.status, TRUE)>>)

\* mutant of _score_target_range: the deviation keeps its sign
_score_target_range_SignedDeviation(value, th) ==
    LET b == BandScore(value - th.target, th)
    IN  Scored(b.score, b.status,
               <<b.status, th.description, value, th.unit,
                 StatusSuffix(b.status, FALSE)>>)

_score_target_range(value, th) ==
    LET b == BandScore(Abs(value - th.target), th)
    IN  Scored(b.score, b.status,
               <<b.status, th.description, value, th.unit,
                 StatusSuffix(b.status, FALSE)>>)

_score_metric(metric_name, value) ==
    IF metric_name \notin DOMAIN thresholds
    THEN [score |-> Points(50), status |-> "unknown",
          message |-> <<"No thresholds defined for ", metric_name>>]
    ELSE IF thresholds[metric_name].direction = "lower_better"
    THEN _score_lower_better(value, thresholds[metric_name])
    ELSE _score_target_range(value, thresholds[metric_name])

\* a fraction num/den with den > 0
Frac(n, d) == [num |-> n, den |-> d]

FracGE(f, n) == f.num >= Points(n) * f.den

\* mutant of _get_category: the good category starts at 70
_get_category_GoodFrom70(score) ==
    IF FracGE(score, 90) THEN "excellent"
    ELSE IF FracGE(score, 70) THEN "good"
    ELSE IF FracGE(score, 55) THEN "fair"
    ELSE IF FracGE(score, 30) THEN "poor"
    ELSE "critical"

_get_category(score) ==
    IF FracGE(score, 90) THEN "excellent"
    ELSE IF FracGE(score, 75) THEN "good"
    ELSE IF FracGE(score, 55) THEN "fair"
    ELSE IF FracGE(score, 30) THEN "poor"
    ELSE "critical"

\* mutant of _get_recommendations: the table is not consulted
_get_recommendations_AlwaysDefault(metric_name, status) ==
    <<"Monitor and investigate as needed">>

_get_recommendations(metric_name, status) ==
    IF metric_name \in DOMAIN recommendations_db
          /\ status \in DOMAIN recommendations_db[metric_name]
    THEN recommendations_db[metric_name][status]
    ELSE <<"Monitor and investigate as needed">>

MetricScore(name, value, weight) ==
    LET s == _score_metric(name, value)
    IN  [metric_name |-> name, raw_value |-> value,
         normalized_score |-> s.score,
         weighted_contribution |-> s.score * weight,
         weight |-> weight, status |-> s.status, message |-> s.message]

\* mutant of ScoreLoop: after the weighted metrics, a key of the metrics map
\* that the weight map does not name is scored as well
RECURSIVE ScoreLoop_ScoresEveryKey(_, _, _)
ScoreLoop_ScoresEveryKey(w, m, i) ==
    IF i > Len(w)
    THEN LET unknown == {k \in DOMAIN m :
                            /\ ~IsNone(m[k])
                            /\ \A j \in 1..Len(w) : w[j].name # k}
         IN  IF unknown = {} THEN <<>>
             ELSE LET k == CHOOSE x \in unknown : TRUE
                  IN  <<MetricScore(k, m[k][1], 1)>>
    ELSE LET value == Get(m, w[i].name)
         IN  (IF IsNone(value) THEN <<>>
              ELSE <<MetricScore(w[i].name, value[1], w[i].weight)>>)
             \o ScoreLoop_ScoresEveryKey(w, m, i + 1)

\* the loop of calculate: one MetricScore per weighted metric whose value is
\* not None, in the order of the weight map
RECURSIVE ScoreLoop(_, _, _)
ScoreLoop(w, m, i) ==
    IF i > Len(w) THEN <<>>
    ELSE LET value == Get(m, w[i].name)
         IN  (IF IsNone(value) THEN <<>>
              ELSE <<MetricScore(w[i].name, value[1], w[i].weight)>>)
             \o ScoreLoop(w, m, i + 1)

RECURSIVE SumOf(_, _)
SumOf(seq, field) ==
    IF seq = <<>> THEN 0 ELSE seq[1][field] + SumOf(Tail(seq), field)

\* mutant of InsertByScore: an entry goes before the entries that score the
\* same, so that equal scores come out in reverse order
RECURSIVE InsertByScore_BeforeEquals(_, _)
InsertByScore_BeforeEquals(x, sorted) ==
    IF sorted = <<>> THEN <<x>>
    ELSE IF sorted[1].normalized_score < x.normalized_score
    THEN <<sorted[1]>> \o InsertByScore_BeforeEquals(x, Tail(sorted))
    ELSE <<x>> \o sorted

\* sorted(...) is stable: an entry goes after the entries that do not score
\* higher than it
RECURSIVE InsertByScore(_, _)
InsertByScore(x, sorted) ==
    IF sorted = <<>> THEN <<x>>
    ELSE IF sorted[1].normalized_score <= x.normalized_score
    THEN <<sorted[1]>> \o InsertByScore(x, Tail(sorted))
    ELSE <<x>> \o sorted

\* mutant of SortByScore: the breakdown is left in weight-map order
SortByScore_Unsorted(seq) == seq

RECURSIVE SortByScore(_)
SortByScore(seq) ==
    IF seq = <<>> THEN <<>>
    ELSE InsertByScore(seq[Len(seq)], SortByScore(SubSeq(seq, 1, Len(seq) - 1)))

\* the score below which the worst metric becomes the primary concern
ConcernThreshold == 70

\* mutant of OverallScore: with no weight present the score is 0
OverallScore_ZeroWhenEmpty(weighted_sum, total_weight) ==
    IF total_weight > 0 THEN Frac(weighted_sum, total_weight)
    ELSE Frac(0, 1)

\* mutant of OverallScore: the weights are taken to sum to 1.0 (twenty
\* twentieths), so the sum is not renormalised by the weight present
OverallScore_UnitWeightSum(weighted_sum, total_weight) ==
    IF total_weight > 0 THEN Frac(weighted_sum, SumOf(DefaultWeights, "weight"))
    ELSE Frac(Points(50), 1)

OverallScore(weighted_sum, total_weight) ==
    IF total_weight > 0 THEN Frac(weighted_sum, total_weight)
    ELSE Frac(Points(50), 1)

calculate(w, m) ==
    LET breakdown == ScoreLoop(w, m, 1)
        weighted_sum == SumOf(breakdown, "weighted_contribution")
        total_weight == SumOf(breakdown, "weight")
        overall_score == OverallScore(weighted_sum, total_weight)
        breakdown_sorted == SortByScore(breakdown)
        concerned == /\ breakdown # <<>>
                     /\ breakdown_sorted[1].normalized_score < Points(ConcernThreshold)
    IN  [overall_score |-> overall_score,
         category |-> _get_category(overall_score),
         breakdown |-> breakdown_sorted,
         primary_concern |->
            IF concerned THEN <<breakdown_sorted[1].metric_name>> ELSE None,
         recommendations |->
            IF concerned
            THEN _get_recommendations(breakdown_sorted[1].metric_name,
                                      breakdown_sorted[1].status)
            ELSE <<>>]

(***************************************************************************)
(* The scorer's state machine: an engine built with a weight map, scoring  *)
(* one metrics map.                                                        *)
(***************************************************************************)
MetricValues ==
    [vibration_rms   |-> {1500, 3000, 4500, 5500, 9000, 15000, 25000},
     approach_temp   |-> {1800, 2500, 4000, 8000},
     phase_imbalance |-> {500, 7000, 12000},
     kw_per_ton      |-> {500, 650, 1300},
     delta_t         |-> {5500, 7000, 500, -1000},
     cop             |-> {4000}]

MetricNames == DOMAIN MetricValues

\* the metrics maps: every key absent or one of its values; on two of the
\* keys None is tried as well
MetricOptions ==
    [k \in MetricNames |->
        {Num(n) : n \in MetricValues[k]}
        \cup (IF k \in {"vibration_rms", "phase_imbalance"} THEN {None} ELSE {})]

MetricMaps == DictsOver(MetricNames, Cardinality(MetricNames), MetricOptions)

\* the weight maps an engine is built with: none (the defaults), an equal
\* split over two metrics, and one that does not sum to 1 and weights a
\* metric that has no thresholds
WeightMaps ==
    { <<>>,
      << [name |-> "vibration_rms", weight |-> 10],
         [name |-> "approach_temp", weight |-> 10] >>,
      << [name |-> "delta_t", weight |-> 2],
         [name |-> "cop", weight |-> 6],
         [name |-> "kw_per_ton", weight |-> 6],
         [name |-> "vibration_rms", weight |-> 10] >> }

HealthNotCalled == <<>>

\* engine.calculate(metrics)
Calculate ==
    /\ health = HealthNotCalled
    /\ health' = calculate(weights, metrics)
    /\ UNCHANGED <<weights, metrics, guardVars, ingestVars, genVars, scoreVars,
                 physicsVars>>

(***************************************************************************)
(* The scoring curves on their own: _score_metric applied to one metric    *)
(* and one value, the values taken every ScoreStep thousandths from        *)
(* -MaxScoreSteps to MaxScoreSteps steps around 10.0.                      *)
(***************************************************************************)
\* every threshold of the engine is a multiple of ScoreStep thousandths
ScoreStep == 50

\* the values reach MaxScoreSteps steps below and above ScoreCentre
MaxScoreSteps == 300

ScoreCentre == 10 * Unit

ScoreValues ==
    {ScoreCentre + k * ScoreStep : k \in (-MaxScoreSteps)..MaxScoreSteps}

NotScored == <<>>

\* engine._score_metric(metric_name, value)
ScoreMetric ==
    /\ score_output = NotScored
    /\ score_output' = _score_metric(score_input.metric_name, score_input.value)
    /\ UNCHANGED <<score_input, physics_input, physics_output, guardVars,
                   healthVars, ingestVars, genVars>>

\*--- HEALTH SECTION END ---

(***************************************************************************)
(* PhysicsCalculator (core/physics.py)                                     *)
(*                                                                         *)
(* A quotient the code returns unrounded is kept as the fraction num/den;  *)
(* calculate_all_metrics rounds it back to thousandths.  Cooling capacity  *)
(* is counted in 1/TonUnit ton, in which flow * delta_t * 9/5 * 500/12000  *)
(* is an integer for a flow in whole hundreds of GPM, and for a flow in    *)
(* whole tens of GPM when delta_t is in whole hundredths of a degree.      *)
(***************************************************************************)
TonUnit == 400

DEFAULT_CHW_FLOW_GPM == 1000 * Unit

REFRIGERANT_SAT_OFFSET == 3 * Unit

\* KW_PER_TON, 3.517, in thousandths
KW_PER_TON == 3517

\* round(n / d) to an integer, ties to the even one (d > 0).  The code
\* rounds binary floats: where the exact decimal value is a tie, the float it
\* rounds lies just above or just below it, and the result is one of the two
\* neighbours, fixed by the operands; here it is always the even one.
RoundDiv(n, d) ==
    LET q == n \div d
        r == n % d
    IN  IF 2 * r < d THEN q
        ELSE IF 2 * r > d THEN q + 1
        ELSE IF q % 2 = 0 THEN q ELSE q + 1

RECURSIVE GCD(_, _)
GCD(a, b) == IF b = 0 THEN a ELSE GCD(b, a % b)

calculate_delta_t(chw_return_temp, chw_supply_temp) ==
    chw_return_temp - chw_supply_temp

\* mutant of calculate_cooling_tons: the formula without its floor
calculate_cooling_tons_NoFloor(delta_t, chw_flow_gpm) ==
    LET flow == IF IsNone(chw_flow_gpm) THEN DEFAULT_CHW_FLOW_GPM
                ELSE chw_flow_gpm[1]
    IN  (3 * (flow \div (10 * Unit)) * delta_t) \div 10

\* tons = gpm * (delta_t * 9/5) * 500 / 12000 = gpm * delta_t * 3/40, at
\* least 0.1; the result is in 1/TonUnit ton
calculate_cooling_tons(delta_t, chw_flow_gpm) ==
    LET flow == IF IsNone(chw_flow_gpm) THEN DEFAULT_CHW_FLOW_GPM
                ELSE chw_flow_gpm[1]
    IN  Max((3 * (flow \div (10 * Unit)) * delta_t) \div 10, TonUnit \div 10)

\* power / tons, a fraction of thousandths of kW/ton
calculate_kw_per_ton(power_kw, delta_t, chw_flow_gpm) ==
    LET tons == calculate_cooling_tons(delta_t, chw_flow_gpm)
    IN  IF power_kw <= 0 THEN Frac(0, 1)
        ELSE IF 10 * tons < TonUnit THEN Frac(0, 1)
        ELSE Frac(TonUnit * power_kw, tons)

\* with no saturation temperature given the approach is the offset itself
calculate_approach_temperature(cdw_outlet_temp, refrigerant_sat_temp) ==
    LET sat == IF IsNone(refrigerant_sat_temp)
               THEN cdw_outlet_temp + REFRIGERANT_SAT_OFFSET
               ELSE refrigerant_sat_temp[1]
    IN  Max(sat - cdw_outlet_temp, 0)

\* max |c - avg| / avg * 100 with avg = sum / 3, a fraction of thousandths
\* of a percent (the ratio is reduced before it is scaled)
calculate_phase_imbalance(current_r, current_y, current_b) ==
    LET sum == current_r + current_y + current_b
        dev(c) == Abs(3 * c - sum)
        max_deviation == Max(dev(current_r), Max(dev(current_y), dev(current_b)))
        g == GCD(max_deviation, sum)
    IN  IF current_r <= 0 /\ current_y <= 0 /\ current_b <= 0 THEN Frac(0, 1)
        ELSE IF 10 * sum < 3 * Unit THEN Frac(0, 1)
        ELSE Frac((max_deviation \div g) * 100 * Unit, sum \div g)

\* mutant of calculate_cop: the capacity is taken at the default flow
calculate_cop_AtDefaultFlow(delta_t, power_kw, chw_flow_gpm) ==
    LET tons == calculate_cooling_tons(delta_t, None)
    IN  IF power_kw <= 0 THEN Frac(0, 1)
        ELSE Frac(tons * KW_PER_TON, (TonUnit \div 100) * power_kw)

\* tons * 3.517 / power, a fraction of hundredths
calculate_cop(delta_t, power_kw, chw_flow_gpm) ==
    LET tons == calculate_cooling_tons(delta_t, chw_flow_gpm)
    IN  IF power_kw <= 0 THEN Frac(0, 1)
        ELSE Frac(tons * KW_PER_TON, (TonUnit \div 100) * power_kw)

\* round(x, 3)
Round3(f) == RoundDiv(f.num, f.den)

\* round(x, 2) of a fraction of thousandths
Round2(f) == 10 * RoundDiv(f.num, 10 * f.den)

calculate_all_metrics(chw_supply_temp, chw_return_temp, cdw_inlet_temp, cdw_outlet_temp, power_kw, current_r, current_y, current_b, chw_flow_gpm) ==
    LET delta_t == calculate_delta_t(chw_return_temp, chw_supply_temp)
        cooling_tons == calculate_cooling_tons(delta_t, chw_flow_gpm)
        kw_per_ton == calculate_kw_per_ton(power_kw, delta_t, chw_flow_gpm)
        approach_temp == calculate_approach_temperature(cdw_outlet_temp, None)
        phase_imbalance == calculate_phase_imbalance(current_r, current_y, current_b)
        cop == calculate_cop(delta_t, power_kw, chw_flow_gpm)
    IN  [delta_t         |-> Num(delta_t),
         cooling_tons    |-> Num(Round2(Frac(cooling_tons * Unit, TonUnit))),
         kw_per_ton      |-> Num(Round3(kw_per_ton)),
         approach_temp   |-> Num(approach_temp),
         phase_imbalance |-> Num(Round2(phase_imbalance)),
         cop             |-> Num(10 * RoundDiv(cop.num, cop.den))]

(***************************************************************************)
(* process_sensor_data (api/routes/ingest.py) and the store it writes to   *)
(* (api/database.py).  The module's guard is PhysicsGuard() and its engine *)
(* HealthScoreEngine(), both with defaults.                                *)
(***************************************************************************)
(***************************************************************************)
(* The calculator on its own: calculate_cooling_tons, calculate_kw_per_ton *)
(* and calculate_cop applied to the same delta_t, power and flow.          *)
(***************************************************************************)
\* delta_t: negative, zero, below the floor of 0.1 ton, and up to
\* MaxDeltaT degrees
MaxDeltaT == 12

DeltaTs == {-2 * Unit, 0, 1, 10} \cup {d * Unit : d \in 1..MaxDeltaT}

Powers == {-1 * Unit, 0, 1, 100 * Unit, 280 * Unit, 500 * Unit}

\* chw_flow_gpm: not supplied, zero, and whole hundreds of GPM
Flows == {None, Num(0), Num(100 * Unit), Num(800 * Unit), Num(1000 * Unit),
          Num(1200 * Unit)}

NotCalculated == <<>>

\* the three calculator calls on physics_input
CalculatePhysics ==
    /\ physics_output = NotCalculated
    /\ physics_output' =
          [cooling_tons |-> calculate_cooling_tons(physics_input.delta_t,
                                                   physics_input.chw_flow_gpm),
           kw_per_ton |-> calculate_kw_per_ton(physics_input.power_kw,
                                               physics_input.delta_t,
                                               physics_input.chw_flow_gpm),
           cop |-> calculate_cop(physics_input.delta_t, physics_input.power_kw,
                                 physics_input.chw_flow_gpm)]
    /\ UNCHANGED <<physics_input, score_input, score_output, guardVars,
                   healthVars, ingestVars, genVars>>

\* data.model_dump(exclude_none=True): the fields that are not None
model_dump(data) == [k \in {f \in DOMAIN data : ~IsNone(data[f])} |-> data[k]]

\* `x or default` on an optional number: None and 0 are both falsy
OrElse(x, dflt) == IF IsNone(x) \/ x[1] = 0 THEN dflt ELSE x[1]

\* dict.update(other)
Update(d, other) == other @@ d

\* Step 2.  metrics_dict and derived_metrics, and the calculator call made
DeriveMetrics(data) ==
    LET has_thermal == /\ ~IsNone(data.chw_supply_temp)
                       /\ ~IsNone(data.chw_return_temp)
                       /\ ~IsNone(data.cdw_outlet_temp)
        has_electrical == /\ ~IsNone(data.current_r)
                          /\ ~IsNone(data.current_y)
                          /\ ~IsNone(data.current_b)
        has_power == ~IsNone(data.power_kw)
    IN  IF has_thermal /\ has_power
        THEN LET all == calculate_all_metrics(
                            data.chw_supply_temp[1], data.chw_return_temp[1],
                            OrElse(data.cdw_inlet_temp, 29 * Unit),
                            data.cdw_outlet_temp[1], data.power_kw[1],
                            OrElse(data.current_r, 0), OrElse(data.current_y, 0),
                            OrElse(data.current_b, 0), data.chw_flow_gpm)
             IN  [metrics_dict |-> all, derived_metrics |-> <<all>>,
                  called |-> <<"calculate_all_metrics">>]
        ELSE IF has_electrical
        THEN LET phase_imbalance ==
                     calculate_phase_imbalance(data.current_r[1],
                                               data.current_y[1],
                                               data.current_b[1])
                 \* not rounded on this branch; the currents of the model
                 \* make it a whole number of thousandths
                 only == [phase_imbalance |->
                             Num(phase_imbalance.num \div phase_imbalance.den)]
             IN  [metrics_dict |-> only, derived_metrics |-> <<only>>,
                  called |-> <<"calculate_phase_imbalance">>]
        ELSE [metrics_dict |-> <<>>, derived_metrics |-> None, called |-> <<>>]

\* Step 3.  The metrics handed to the health engine
HealthMetrics(data, metrics_dict) ==
    LET scored == {"approach_temp", "phase_imbalance", "kw_per_ton", "delta_t"}
        derived == [k \in {m \in scored : ~IsNone(Get(metrics_dict, m))} |->
                       metrics_dict[k]]
    IN  IF ~IsNone(data.vibration_rms)
        THEN ("vibration_rms" :> data.vibration_rms) @@ derived
        ELSE derived

\* Step 4.  validation_warnings: the issues that are warnings or info
RECURSIVE WarningsAndInfo(_)
WarningsAndInfo(issues) ==
    IF issues = <<>> THEN <<>>
    ELSE (IF issues[1].severity \in {"warning", "info"}
          THEN <<issues[1]>> ELSE <<>>) \o WarningsAndInfo(Tail(issues))

CountSeverity(issues, sev) ==
    Cardinality({i \in 1..Len(issues) : issues[i].severity = sev})

ValidationResponse(result) ==
    [is_valid |-> result.is_valid, status |-> result.status,
     error_count |-> CountSeverity(result.issues, "error"),
     warning_count |-> CountSeverity(result.issues, "warning"),
     issues |-> result.issues]

IngestResponse(success, message, validation, derived_metrics, health_score) ==
    [outcome |-> "returned", success |-> success, message |-> message,
     validation |-> validation, derived_metrics |-> derived_metrics,
     health_score |-> health_score]

\* an exception that leaves process_sensor_data
IngestRaised(exc) ==
    [outcome |-> "raised", success |-> FALSE, message |-> <<exc>>,
     validation |-> None, derived_metrics |-> None, health_score |-> None]

\* DatabaseManager.insert_sensor_data: the row of the values that are not
\* None is inserted and committed, or the statement fails, is rolled back
\* and the error is raised
insert_sensor_data(rows, data, db_fails) ==
    IF db_fails THEN [rows |-> rows, raised |-> TRUE]
    ELSE [rows |-> Append(rows, model_dump(data)), raised |-> FALSE]

\* mutant of ReturnsEarly: a rejected reading goes on through the pipeline
ReturnsEarly_Never(validation_result) == FALSE

\* `if not validation_result.is_valid: return ...`
ReturnsEarly(validation_result) == ~validation_result.is_valid

\* Step 4.  The dict handed to the store: the values that are not None, the
\* derived metrics, the health_result result and the validation info
StoredDict(data, validation_result, derived, health_result) ==
    (IF validation_result.issues # <<>>
     THEN "validation_warnings" :> WarningsAndInfo(validation_result.issues)
     ELSE <<>>)
    @@ ("validation_status" :> <<validation_result.status>>)
    @@ (IF health_result # None
        THEN ("health_score" :> <<health_result[1].overall_score>>)
             @@ ("health_breakdown" :> health_result)
        ELSE <<>>)
    @@ Update(model_dump(data), derived.metrics_dict)

\* the end of step 4: success and message follow the insert, and the
\* response is returned
StoreAndRespond(validation_result, validation_response, derived, health_result, inserted) ==
    [response |->
        IngestResponse(
            ~inserted.raised,
            IF inserted.raised
            THEN <<"Data validated but storage failed: ">>
            ELSE <<"Data ingested successfully">>
                 \o (IF validation_result.status = "accepted_with_warnings"
                     THEN <<" with ", ToString(validation_response.warning_count),
                            " warning(s)">>
                     ELSE <<>>),
            validation_response, derived.derived_metrics,
            IF health_result # None THEN <<health_result[1].overall_score>> ELSE None),
     rows |-> inserted.rows,
     calls |-> <<"validate">> \o derived.called
               \o (IF health_result # None THEN <<"calculate">> ELSE <<>>)
               \o <<"insert_sensor_data">>]

\* Step 3.  `if health_metrics:` the engine scores them; health_result is None
\* or the HealthScore
ScoreAndStore(data, validation_result, derived, health_metrics, rows, db_fails) ==
    LET health_result == IF health_metrics # <<>>
                  THEN <<calculate(DefaultWeights, health_metrics)>>
                  ELSE None
    IN  StoreAndRespond(validation_result, ValidationResponse(validation_result),
                        derived, health_result,
                        insert_sensor_data(rows,
                                           StoredDict(data, validation_result,
                                                      derived, health_result),
                                           db_fails))

\* Steps 2 to 4, for a reading that passed validation
DeriveScoreAndStore(data, validation_result, derived, rows, db_fails) ==
    ScoreAndStore(data, validation_result, derived,
                  HealthMetrics(data, derived.metrics_dict), rows, db_fails)

\* the early return of a rejected reading
RejectedResponse(validation_result, rows) ==
    [response |->
        IngestResponse(FALSE,
                       <<"Data rejected: ">>
                       \o (IF validation_result.issues # <<>>
                           THEN validation_result.issues[1].message
                           ELSE <<"Validation failed">>),
                       ValidationResponse(validation_result), None, None),
     rows |-> rows, calls |-> <<"validate">>]

\* process_sensor_data once validate has returned or raised
AfterValidation(data, validation_result, rows, db_fails) ==
    IF validation_result.outcome = "raised"
    THEN [response |-> IngestRaised(validation_result.status),
          rows |-> rows, calls |-> <<"validate">>]
    ELSE IF ReturnsEarly(validation_result)
    THEN RejectedResponse(validation_result, rows)
    ELSE DeriveScoreAndStore(data, validation_result, DeriveMetrics(data), rows,
                             db_fails)

\* process_sensor_data(data, db_manager) on a store holding `rows`; db_fails
\* says whether the store rejects the statement.  The result is the
\* response, the store's rows afterwards and the core operations invoked.
process_sensor_data(data, rows, db_fails) ==
    AfterValidation(data, validate(model_dump(data), FALSE), rows, db_fails)

(***************************************************************************)
(* The pipeline's state machine: one SensorDataInput, processed once       *)
(* against a store that accepts or rejects the insert.  The values         *)
(* respect the field constraints of SensorDataInput (api/models.py); the   *)
(* fields the model leaves out (asset_id, time, operating_mode, ...) are   *)
(* read by no rule and no calculation.                                     *)
(***************************************************************************)
SensorValues ==
    [chw_supply_temp |-> {6700},
     chw_return_temp |-> {6700, 12200},
     cdw_inlet_temp  |-> {29400},
     cdw_outlet_temp |-> {29400, 35000},
     vibration_rms   |-> {2000, 8000},
     power_kw        |-> {0, 280000},
     load_percent    |-> {80000},
     chw_flow_gpm    |-> {800000},
     current_r       |-> {200000},
     current_y       |-> {200000},
     current_b       |-> {200000, 240000}]

SensorFields == DOMAIN SensorValues

\* every field is Optional: None, or one of its values
Optional(f) == {None} \cup {Num(n) : n \in SensorValues[f]}

SensorInputs ==
    [chw_supply_temp : Optional("chw_supply_temp"),
     chw_return_temp : Optional("chw_return_temp"),
     cdw_inlet_temp  : Optional("cdw_inlet_temp"),
     cdw_outlet_temp : Optional("cdw_outlet_temp"),
     vibration_rms   : Optional("vibration_rms"),
     power_kw        : Optional("power_kw"),
     load_percent    : Optional("load_percent"),
     chw_flow_gpm    : Optional("chw_flow_gpm"),
     current_r       : Optional("current_r"),
     current_y       : Optional("current_y"),
     current_b       : Optional("current_b")]

IngestNotCalled == <<>>

\* POST /ingest: process_sensor_data(sensor_input, db_manager)
Ingest ==
    /\ response = IngestNotCalled
    /\ \E db_fails \in BOOLEAN :
          LET done == process_sensor_data(sensor_input, db_rows, db_fails)
          IN  /\ response' = done.response
              /\ db_rows' = done.rows
              /\ calls' = done.calls
    /\ UNCHANGED <<sensor_input, guardVars, healthVars, genVars, scoreVars,
                 physicsVars>>

\*--- INGEST SECTION END ---

(***************************************************************************)
(* The module-level generator of Python's `random`, which every            *)
(* ChillerDataGenerator draws from (engine/generator.py calls              *)
(* random.seed, random.uniform, random.gauss and random.randint, never an  *)
(* instance of random.Random).  Its state is one of RngStates and a draw   *)
(* steps it; a draw is one of three points, -1, 0 or 1, which uniform,     *)
(* gauss and randint scale to their ranges.                                *)
(***************************************************************************)
RngStates == 0..15

\* random.seed(n)
Seeded(n) == (7 * n + 1) % 16

\* the state after k draws
RECURSIVE Advance(_, _)
Advance(s, k) == IF k = 0 THEN s ELSE Advance((5 * s + 3) % 16, k - 1)

\* the k-th draw from state s
Draw(s, k) == (Advance(s, k) % 3) - 1

\* random.uniform(a, b) = a + (b - a) * random(), random() in [0, 1): the
\* three points are random() = 0.1, 0.5 and 0.8
Uniform(a, b, z) == a + ((b - a) * (CASE z = -1 -> 1 [] z = 0 -> 5 [] z = 1 -> 8)) \div 10

\* random.gauss(0, sigma): the three points are -sigma, 0 and sigma
Gauss(sigma, z) == z * sigma

\* the draws one generate_reading makes: one in _calculate_load_factor and
\* fourteen in _generate_base_values
DrawsPerReading == 15

(***************************************************************************)
(* FailureScenario and ScenarioLibrary (engine/failure_scenarios.py)       *)
(*                                                                         *)
(* A modifier's result is kept as whole + num/den thousandths; progress is *)
(* the fraction scenario_day / duration_days.  sin and the power 1.3 are   *)
(* tabulated, in millionths, at the days of the model.                     *)
(***************************************************************************)
Mixed(whole, f) == [whole |-> whole, frac |-> f]

\* 1000000 * sin(0.3 * day) and 1000000 * sin(0.5 * day), day = 0..16
SinMicro(rate10, day) ==
    IF rate10 = 3
    THEN <<0, 295520, 564642, 783327, 932039, 997495, 973848, 863209, 675463,
           427380, 141120, -157746, -442520, -687766, -871576, -977530,
           -996165>>[day + 1]
    ELSE <<0, 479426, 841471, 997495, 909297, 598472, 141120, -350783, -756802,
           -977530, -958924, -705540, -279415, 215120, 656987, 938000,
           989358>>[day + 1]

\* 1000000 * 4.0 * (day / duration) ** 1.3, day = 0..4
FoulingMicro(progress) ==
    IF progress.den = 3 THEN <<0, 958964, 2361247, 4000000, 5814071>>[progress.num + 1]
    ELSE <<0, 19519, 48062, 81418, 118343>>[progress.num + 1]

ScenarioTypes ==
    {"healthy", "tube_fouling", "bearing_wear", "refrigerant_leak",
     "electrical_issue", "post_maintenance_misalignment", "low_load_inefficiency"}

\* the default of each factory's duration_days parameter
DefaultDuration ==
    [healthy |-> 30, tube_fouling |-> 60, bearing_wear |-> 45,
     refrigerant_leak |-> 30, electrical_issue |-> 14,
     post_maintenance_misalignment |-> 7, low_load_inefficiency |-> 14]

\* the keys of each scenario's modifiers dict
ModifierTable ==
    [healthy |-> {},
     tube_fouling |-> {"approach_temp", "kw_per_ton", "cdw_outlet_temp", "power_kw"},
     bearing_wear |-> {"vibration_rms", "vibration_freq", "power_kw",
                       "current_r", "current_y", "current_b"},
     refrigerant_leak |-> {"kw_per_ton", "delta_t", "approach_temp", "load_percent"},
     electrical_issue |-> {"phase_imbalance", "current_r", "current_y", "current_b"},
     post_maintenance_misalignment |-> {"vibration_rms", "vibration_freq"},
     low_load_inefficiency |-> {"load_percent", "kw_per_ton"}]

\* ScenarioLibrary.<type>(duration_days): the FailureScenario object
ScenarioLibrary(type, duration_days) ==
    [failure_type |-> type, duration_days |-> duration_days,
     modifiers |-> ModifierTable[type]]

tube_fouling(metric, base, p, day) ==
    CASE metric = "approach_temp" ->
            \* 4.0 * progress ** 1.3 + 0.2 * sin(0.5 * day)
            Mixed(base, Frac(5 * FoulingMicro(p) + SinMicro(5, day), 5000))
      [] metric = "kw_per_ton" -> Mixed(base, Frac(150 * p.num, p.den))
      [] metric = "cdw_outlet_temp" -> Mixed(base, Frac(2500 * p.num, p.den))
      [] metric = "power_kw" ->
            Mixed(0, Frac(base * (25 * p.den + 3 * p.num), 25 * p.den))

bearing_wear(metric, base, p, day) ==
    CASE metric = "vibration_rms" ->
            \* 8.0 * progress ** 2 + 0.5 * sin(0.3 * day) * progress
            Mixed(base, Frac(16000000 * p.num * p.num
                             + SinMicro(3, day) * p.num * p.den,
                             2000 * p.den * p.den))
      [] metric = "vibration_freq" ->
            IF 2 * p.num > p.den
            THEN Mixed(0, Frac(base * (17 * p.den + 6 * p.num), 20 * p.den))
            ELSE Mixed(base, Frac(0, 1))
      [] metric = "power_kw" ->
            IF 10 * p.num > 7 * p.den
            THEN Mixed(0, Frac(base * (53 * p.den + 10 * p.num), 60 * p.den))
            ELSE Mixed(base, Frac(0, 1))
      [] metric \in {"current_r", "current_y", "current_b"} ->
            IF 5 * p.num > 3 * p.den
            THEN Mixed(0, Frac(base * (191 * p.den + 15 * p.num), 200 * p.den))
            ELSE Mixed(base, Frac(0, 1))

refrigerant_leak(metric, base, p, day) ==
    CASE metric = "kw_per_ton" -> Mixed(base, Frac(350 * p.num, p.den))
      [] metric = "delta_t" ->
            Mixed(0, Frac(Max(base * p.den - 2500 * p.num, 1500 * p.den), p.den))
      [] metric = "approach_temp" ->
            IF 10 * p.num < 3 * p.den
            THEN Mixed(base, Frac(-500 * p.num, p.den))
            ELSE Mixed(base, Frac(8000 * p.num - 2400 * p.den, 10 * p.den))
      [] metric = "load_percent" ->
            IF 5 * p.num > 2 * p.den
            THEN Mixed(0, Frac(Max(base * p.den - 5000 * (5 * p.num - 2 * p.den),
                                   20000 * p.den), p.den))
            ELSE Mixed(base, Frac(0, 1))

electrical_issue(metric, base, p, day) ==
    CASE metric = "phase_imbalance" ->
            Mixed(base + (IF day % 3 = 0 /\ 10 * p.num > 3 * p.den THEN 2500 ELSE 0),
                  Frac(7000 * p.num, p.den))
      [] metric = "current_r" ->
            Mixed(0, Frac(base * (20 * p.den + 3 * p.num), 20 * p.den))
      [] metric = "current_y" ->
            Mixed(0, Frac(base * (25 * p.den - 2 * p.num), 25 * p.den))
      [] metric = "current_b" ->
            Mixed(0, Frac(base * (50 * p.den + p.num), 50 * p.den))

post_maintenance_misalignment(metric, base, p, day) ==
    CASE metric = "vibration_rms" ->
            IF day = 0 THEN Mixed(base + 5000, Frac(0, 1))
            ELSE Mixed(base + 5000 + 400 * day, Frac(0, 1))
      [] metric = "vibration_freq" ->
            IF day > 0 THEN Mixed(2 * base, Frac(0, 1)) ELSE Mixed(base, Frac(0, 1))

low_load_inefficiency(metric, base, p, day) ==
    CASE metric = "load_percent" -> Mixed(25000, Frac(10 * SinMicro(5, day), 1000))
      [] metric = "kw_per_ton" -> Mixed(0, Frac(7 * base, 5))

\* FailureScenario.apply_modifier
apply_modifier(scenario, metric_name, base_value, progress, day) ==
    IF metric_name \in scenario.modifiers
    THEN CASE scenario.failure_type = "tube_fouling" ->
                 tube_fouling(metric_name, base_value, progress, day)
           [] scenario.failure_type = "bearing_wear" ->
                 bearing_wear(metric_name, base_value, progress, day)
           [] scenario.failure_type = "refrigerant_leak" ->
                 refrigerant_leak(metric_name, base_value, progress, day)
           [] scenario.failure_type = "electrical_issue" ->
                 electrical_issue(metric_name, base_value, progress, day)
           [] scenario.failure_type = "post_maintenance_misalignment" ->
                 post_maintenance_misalignment(metric_name, base_value, progress, day)
           [] scenario.failure_type = "low_load_inefficiency" ->
                 low_load_inefficiency(metric_name, base_value, progress, day)
    ELSE Mixed(base_value, Frac(0, 1))

(***************************************************************************)
(* ChillerDataGenerator (engine/generator.py)                              *)
(***************************************************************************)
ChillerBaseline ==
    [chw_supply_temp |-> 6700, chw_return_temp |-> 12200,
     cdw_inlet_temp |-> 29400, cdw_outlet_temp |-> 35000,
     ambient_temp |-> 25000, vibration_rms |-> 2000, vibration_freq |-> 60000,
     current_r |-> 200000, current_y |-> 200000, current_b |-> 200000,
     power_kw |-> 280000, load_percent |-> 80000, chw_flow_gpm |-> 1000000,
     runtime_hours |-> 15000000]

\* 2 * sin((hour - 6) * pi / 12), at the hours where it is a whole number
SinHourHalves(hour) ==
    CASE hour = 0 -> -2
      [] hour = 4 -> -1
      [] hour \in {6, 18} -> 0
      [] hour \in {8, 16} -> 1
      [] hour = 12 -> 2

\* round(whole + f, 2) and round(whole + f, 1)
RoundSum(whole, f, step) ==
    IF whole % step = 0 THEN whole + step * RoundDiv(f.num, step * f.den)
    ELSE step * RoundDiv(whole * f.den + f.num, step * f.den)

\* z is the draw made for the variation
_calculate_load_factor(hour, z) ==
    LET band ==
            IF 0 <= hour /\ hour < 6 THEN [base |-> 300, lo |-> 0, hi |-> 100]
            ELSE IF 6 <= hour /\ hour < 9
            THEN [base |-> 350 + (400 * (hour - 6)) \div 3, lo |-> -50, hi |-> 80]
            ELSE IF 9 <= hour /\ hour < 12
            THEN [base |-> 750 + (hour - 9) * 50, lo |-> -50, hi |-> 100]
            ELSE IF 12 <= hour /\ hour < 14 THEN [base |-> 850, lo |-> -50, hi |-> 150]
            ELSE IF 14 <= hour /\ hour < 18 THEN [base |-> 800, lo |-> -80, hi |-> 120]
            ELSE IF 18 <= hour /\ hour < 21
            THEN [base |-> 700 - (250 * (hour - 18)) \div 3, lo |-> -50, hi |-> 50]
            ELSE [base |-> 350, lo |-> 0, hi |-> 80]
    IN  Min(Unit, Max(100, band.base + Uniform(band.lo, band.hi, z)))

\* z[k] is the k-th draw the call makes
_generate_base_values(b, load_factor, hour, day, z) ==
    LET efficiency_factor ==
            IF load_factor < 300 THEN 75
            ELSE IF load_factor < 500 THEN 85
            ELSE IF load_factor < 800 THEN 95
            ELSE 90
        \* power_kw = b.power_kw * (load_factor / 0.8) / efficiency_factor,
        \* plus gauss(0, power_kw * 0.02), at least 10
        noisy == Frac((b.power_kw \div 400) * load_factor * (50 + z[1]),
                      efficiency_factor)
        power_kw == IF noisy.num < 10 * Unit * noisy.den THEN Frac(10 * Unit, 1)
                    ELSE noisy
        chw_supply == b.chw_supply_temp + Gauss(150, z[2])
        design_delta_t == b.chw_return_temp - b.chw_supply_temp
        \* design_delta_t * load_factor * 0.95, at least 2.0
        scaled == Frac(19 * design_delta_t * load_factor, 20 * Unit)
        actual_delta_t == IF scaled.num < 2 * Unit * scaled.den THEN Frac(2 * Unit, 1)
                          ELSE scaled
        cdw_inlet == b.cdw_inlet_temp + 1250 * SinHourHalves(hour) + Gauss(500, z[4])
        design_cdw_rise == b.cdw_outlet_temp - b.cdw_inlet_temp
        \* design_cdw_rise * (0.6 + 0.5 * load_factor)
        actual_cdw_rise == Frac(design_cdw_rise * (1200 + load_factor), 2 * Unit)
        \* base_current = b.current_r * power_kw / b.power_kw, times
        \* 1 + gauss(0, 0.008)
        current(zc) ==
            LET g == GCD(b.current_r, 125 * b.power_kw)
                up == b.current_r \div g
                down == (125 * b.power_kw) \div g
            IN  IF power_kw.num % down = 0
                THEN Frac((power_kw.num \div down) * up * (125 + zc), power_kw.den)
                ELSE Frac(power_kw.num * up * (125 + zc), power_kw.den * down)
    IN  [chw_supply_temp |-> RoundTo(chw_supply, 10),
         chw_return_temp |->
            RoundSum(chw_supply + Gauss(300, z[3]), actual_delta_t, 10),
         cdw_inlet_temp |-> RoundTo(cdw_inlet, 10),
         cdw_outlet_temp |->
            RoundSum(cdw_inlet + Gauss(300, z[5]), actual_cdw_rise, 10),
         ambient_temp |->
            RoundSum(b.ambient_temp + 3000 * SinHourHalves(hour) + Gauss(1000, z[6]),
                     Frac(SinMicro(3, day), 500), 10),
         vibration_rms |->
            Max(500, RoundSum((9 * b.vibration_rms) \div 10 + Gauss(200, z[7]),
                              Frac(b.vibration_rms * load_factor, 5 * Unit), 10)),
         vibration_freq |-> RoundTo(b.vibration_freq + Gauss(300, z[8]), 100),
         runtime_hours |->
            RoundTo(b.runtime_hours + day * 12 * Unit + Uniform(0, 500, z[12]), 100),
         start_stop_cycles |-> (2 + z[14]) * Unit,
         current_r |-> RoundSum(0, current(z[9]), 100),
         current_y |-> RoundSum(0, current(z[10]), 100),
         current_b |-> RoundSum(0, current(z[11]), 100),
         power_kw |-> RoundSum(0, power_kw, 100),
         load_percent |-> RoundTo(load_factor * 100, 100),
         chw_flow_gpm |-> RoundTo(b.chw_flow_gpm + Gauss(10 * Unit, z[13]), 100)]

\* the keys whose base value is an int
IntKeys == {"start_stop_cycles"}

\* `for metric_name in data: if metric_name in self.scenario.modifiers`
_apply_scenario(scenario, data, progress, scenario_day) ==
    [metric_name \in DOMAIN data |->
        IF metric_name \in scenario.modifiers
        THEN LET modified_value == apply_modifier(scenario, metric_name,
                                                  data[metric_name], progress,
                                                  scenario_day)
             IN  IF metric_name \in IntKeys
                 THEN RoundSum(modified_value.whole, modified_value.frac, Unit)
                 ELSE RoundSum(modified_value.whole, modified_value.frac, 10)
        ELSE data[metric_name]]

\* mutant of ScenarioApplies: the start day is not looked at
ScenarioApplies_AnyDay(self, day_number) ==
    /\ self.scenario # None
    /\ day_number - self.scenario_start_day < self.scenario[1].duration_days

\* whether generate_reading applies the scenario of the instance `self`
ScenarioApplies(self, day_number) ==
    /\ self.scenario # None
    /\ day_number >= self.scenario_start_day
    /\ day_number - self.scenario_start_day < self.scenario[1].duration_days

\* the first two steps of generate_reading: the load factor, then the base
\* values
BaseValues(self, hour, day_number, s) ==
    LET load_factor == _calculate_load_factor(hour, Draw(s, 1))
    IN  _generate_base_values(self.baseline, load_factor, hour, day_number,
                              [k \in 1..(DrawsPerReading - 1) |-> Draw(s, k + 1)])

\* generate_reading(timestamp, day_number) on the instance `self`, the
\* module's generator being in state s; the timestamp is its hour
generate_reading(self, hour, day_number, s) ==
    LET base == BaseValues(self, hour, day_number, s)
        scenario_day == day_number - self.scenario_start_day
        data == IF ScenarioApplies(self, day_number)
                THEN _apply_scenario(self.scenario[1], base,
                                     Frac(scenario_day, self.scenario[1].duration_days),
                                     scenario_day)
                ELSE base
    IN  [time |-> hour, asset_id |-> self.asset_id, operating_mode |-> "AUTO",
         alarm_status |-> 0] @@ data

(***************************************************************************)
(* The scenario engine's state machine: generator instances are            *)
(* constructed, given and relieved of scenarios, and asked for readings.   *)
(* outputs[i] is the history of instance i: how it was constructed, then   *)
(* every call made on it, a generate_reading with the reading it returned  *)
(* and the base values the reading was made from.                          *)
(***************************************************************************)
\* at most this many instances
MaxGens == 2

\* at most this many operations in all, constructions included
MaxOps == 4

\* readings are generated for day numbers 0..MaxDay
MaxDay == 2

Seeds == {None, Num(1), Num(2)}

Hours == {4, 12}

StartDays == {0, 1}

\* the scenarios handed to set_scenario: each library factory, called with
\* its default duration and with duration_days = 3
Scenarios ==
    {ScenarioLibrary(type, d) : type \in ScenarioTypes, d \in {3}}
    \cup {ScenarioLibrary(type, DefaultDuration[type]) : type \in ScenarioTypes}

Instances == 1..Len(gens)

RECURSIVE Operations(_)
Operations(i) == IF i = 0 THEN 0 ELSE Len(outputs[i]) + Operations(i - 1)

\* ChillerDataGenerator(random_seed=seed)
Construct(seed) ==
    /\ Len(gens) < MaxGens
    /\ Operations(Len(gens)) < MaxOps
    /\ gens' = Append(gens, [asset_id |-> "CH-001", baseline |-> ChillerBaseline,
                             scenario |-> None, scenario_start_day |-> 0])
    /\ rng' = IF seed # None THEN Seeded(seed[1]) ELSE rng
    /\ outputs' = Append(outputs, <<[op |-> "__init__", random_seed |-> seed]>>)
    /\ UNCHANGED <<batch, guardVars, healthVars, ingestVars, scoreVars, physicsVars>>

\* gens[i].set_scenario(scenario, start_day)
SetScenario(i, scenario, start_day) ==
    /\ Operations(Len(gens)) < MaxOps
    /\ gens' = [gens EXCEPT ![i].scenario = <<scenario>>,
                            ![i].scenario_start_day = start_day]
    /\ outputs' = [outputs EXCEPT ![i] =
                      Append(@, [op |-> "set_scenario", scenario |-> scenario,
                                 start_day |-> start_day])]
    /\ UNCHANGED <<rng, batch, guardVars, healthVars, ingestVars, scoreVars,
                   physicsVars>>

\* mutant of ClearScenario: the start day is left as it was
ClearScenario_KeepsStartDay(i) ==
    /\ Operations(Len(gens)) < MaxOps
    /\ gens' = [gens EXCEPT ![i].scenario = None]
    /\ outputs' = [outputs EXCEPT ![i] = Append(@, [op |-> "clear_scenario"])]
    /\ UNCHANGED <<rng, batch, guardVars, healthVars, ingestVars, scoreVars,
                   physicsVars>>

\* gens[i].clear_scenario()
ClearScenario(i) ==
    /\ Operations(Len(gens)) < MaxOps
    /\ gens' = [gens EXCEPT ![i].scenario = None, ![i].scenario_start_day = 0]
    /\ outputs' = [outputs EXCEPT ![i] = Append(@, [op |-> "clear_scenario"])]
    /\ UNCHANGED <<rng, batch, guardVars, healthVars, ingestVars, scoreVars,
                   physicsVars>>

\* gens[i].generate_reading(timestamp, day_number)
GenerateReading(i, hour, day_number) ==
    /\ Operations(Len(gens)) < MaxOps
    /\ outputs' = [outputs EXCEPT ![i] =
                      Append(@, [op |-> "generate_reading", hour |-> hour,
                                 day_number |-> day_number,
                                 base |-> BaseValues(gens[i], hour, day_number, rng),
                                 reading |-> generate_reading(gens[i], hour,
                                                              day_number, rng)])]
    /\ rng' = Advance(rng, DrawsPerReading)
    /\ UNCHANGED <<gens, batch, guardVars, healthVars, ingestVars, scoreVars,
                   physicsVars>>

(***************************************************************************)
(* generate_batch, generate_to_list and the callers that consume a whole   *)
(* batch: generate_scenario_data (engine/generator.py) and the endpoint    *)
(* POST /scenarios/generate (api/routes/scenarios.py).                     *)
(*                                                                         *)
(* A timestamp is a number of minutes counted from the midnight that opens *)
(* the calendar day of start_time.  `batch` holds the arguments and the    *)
(* locals of the generate_batch call in progress, the (timestamp,          *)
(* day_number) of every reading yielded so far, and what the caller does   *)
(* with the list.  The batch is consumed as generate_to_list consumes it:  *)
(* no other call is made on the instance between two yields.               *)
(***************************************************************************)
MinutesPerDay == 24 * 60

\* datetime.date(), as a day count
DateOf(t) == t \div MinutesPerDay

\* datetime.hour
HourOf(t) == (t % MinutesPerDay) \div 60

NoBatch == [phase |-> "none"]

\* batches are asked for 0..MaxBatchDays days
MaxBatchDays == 3

\* at most this many set_scenario and clear_scenario calls before a batch
MaxBatchOps == 2

\* generate_scenario_data and the endpoint run a scenario for its default
\* duration when that is at most this many days
MaxDataDays == 7

\* at most this many inserts of one request raise
MaxDbFailures == 1

\* start times: midnight, 06:00 and 12:00
StartTimes == {0, 6 * 60, 12 * 60}

\* interval_minutes: a quarter of a day, half a day, one day and two days
Intervals == {6 * 60, 12 * 60, MinutesPerDay, 2 * MinutesPerDay}

\* the locals of generate_batch on entry
StartBatch(i, start_time, duration_days, interval_minutes, caller, ingest) ==
    [phase |-> "running", self |-> i, caller |-> caller, ingest |-> ingest,
     start_time |-> start_time, duration_days |-> duration_days,
     interval_minutes |-> interval_minutes,
     current_time |-> start_time,
     end_time |-> start_time + duration_days * MinutesPerDay,
     day_number |-> 0, current_day |-> DateOf(start_time),
     yielded |-> <<>>, ingested |-> 0, raised |-> 0]

\* the progress generate_reading computes before it applies the scenario,
\* None when it applies none
ProgressOf(self, day_number) ==
    IF ScenarioApplies(self, day_number)
    THEN <<Frac(day_number - self.scenario_start_day,
                self.scenario[1].duration_days)>>
    ELSE None

\* mutant of TrackDay: current_day stays the day of start_time
TrackDay_KeepsFirstDay(current_time, current_day, day_number) ==
    IF DateOf(current_time) # current_day
    THEN [day_number |-> day_number + 1, current_day |-> current_day]
    ELSE [day_number |-> day_number, current_day |-> current_day]

\* `if current_time.date() != current_day: day_number += 1; current_day =
\* current_time.date()`
TrackDay(current_time, current_day, day_number) ==
    IF DateOf(current_time) # current_day
    THEN [day_number |-> day_number + 1, current_day |-> DateOf(current_time)]
    ELSE [day_number |-> day_number, current_day |-> current_day]

\* gens[i].generate_to_list(start_time, duration_days, interval_minutes):
\* the call, up to the first test of the loop
GenerateBatch(i, start_time, duration_days, interval_minutes) ==
    /\ batch = NoBatch
    /\ batch' = StartBatch(i, start_time, duration_days, interval_minutes,
                           "generate_to_list", FALSE)
    /\ UNCHANGED <<rng, gens, outputs, guardVars, healthVars, ingestVars,
                   scoreVars, physicsVars>>

\* one turn of `while current_time < end_time`, as it changes the locals:
\* the day tracking and the step to the next timestamp
LoopTurn ==
    /\ batch.phase = "running"
    /\ batch.current_time < batch.end_time
    /\ LET tracked == TrackDay(batch.current_time, batch.current_day,
                               batch.day_number)
       IN  batch' = [batch EXCEPT
                       !.day_number = tracked.day_number,
                       !.current_day = tracked.current_day,
                       !.yielded =
                          Append(@, [timestamp |-> batch.current_time,
                                     day_number |-> tracked.day_number,
                                     progress |-> ProgressOf(gens[batch.self],
                                                             tracked.day_number),
                                     at |-> Len(outputs[batch.self]) + 1]),
                       !.current_time = @ + batch.interval_minutes]

\* one turn of the loop: the reading it yields is generated for the
\* timestamp and the day number the turn arrived at
YieldReading ==
    /\ LoopTurn
    /\ LET hour == HourOf(batch.current_time)
           day_number == batch'.day_number
           self == gens[batch.self]
       IN  outputs' = [outputs EXCEPT ![batch.self] =
                         Append(@, [op |-> "generate_reading", hour |-> hour,
                                    day_number |-> day_number,
                                    base |-> BaseValues(self, hour, day_number, rng),
                                    reading |-> generate_reading(self, hour,
                                                                 day_number, rng)])]
    /\ rng' = Advance(rng, DrawsPerReading)
    /\ UNCHANGED <<gens, guardVars, healthVars, ingestVars, scoreVars, physicsVars>>

\* the loop test fails: the generator is exhausted and the list is returned
\* to the caller, which goes on to ingest it or is done
Exhausted ==
    /\ batch.phase = "running"
    /\ batch.current_time >= batch.end_time
    /\ batch' = [batch EXCEPT !.phase = IF batch.ingest /\ batch.yielded # <<>>
                                        THEN "ingesting" ELSE "done"]
    /\ UNCHANGED <<rng, gens, outputs, guardVars, healthVars, ingestVars,
                   scoreVars, physicsVars>>

\* ScenarioLibrary.get_scenario_by_type(failure_type, duration_days)
get_scenario_by_type(failure_type, duration_days) ==
    IF duration_days # None THEN ScenarioLibrary(failure_type, duration_days[1])
    ELSE ScenarioLibrary(failure_type, DefaultDuration[failure_type])

\* a new instance with `scenario` attached by set_scenario(scenario), and its
\* history
WithScenario(scenario) ==
    [gen |-> [asset_id |-> "CH-001", baseline |-> ChillerBaseline,
              scenario |-> <<scenario>>, scenario_start_day |-> 0],
     log |-> <<[op |-> "__init__", random_seed |-> None],
               [op |-> "set_scenario", scenario |-> scenario, start_day |-> 0]>>]

\* generate_scenario_data(scenario_type, days, start_time=start_time,
\* interval_minutes=interval_minutes), up to the first test of the loop
GenerateScenarioData(scenario_type, days, start_time, interval_minutes) ==
    /\ batch = NoBatch
    /\ Len(gens) < MaxGens
    /\ LET scenario == get_scenario_by_type(scenario_type, None)
           built == WithScenario(scenario)
           duration == OrElse(days, scenario.duration_days)
       IN  /\ gens' = Append(gens, built.gen)
           /\ outputs' = Append(outputs, built.log)
           /\ batch' = StartBatch(Len(gens) + 1, start_time, duration,
                                  interval_minutes, "generate_scenario_data", FALSE)
    /\ UNCHANGED <<rng, guardVars, healthVars, ingestVars, scoreVars, physicsVars>>

\* POST /scenarios/generate with request.duration_days, request.interval_minutes
\* and request.ingest, up to the first test of the loop; start_time is
\* utcnow() - duration
GenerateScenario(scenario_type, duration_days, start_time, interval_minutes, ingest) ==
    /\ batch = NoBatch
    /\ Len(gens) < MaxGens
    /\ LET scenario == get_scenario_by_type(scenario_type, duration_days)
           built == WithScenario(scenario)
           duration == OrElse(duration_days, scenario.duration_days)
       IN  /\ gens' = Append(gens, built.gen)
           /\ outputs' = Append(outputs, built.log)
           /\ batch' = StartBatch(Len(gens) + 1, start_time, duration,
                                  interval_minutes, "generate_scenario", ingest)
    /\ UNCHANGED <<rng, guardVars, healthVars, ingestVars, scoreVars, physicsVars>>

\* a generated reading as the dict the endpoint works on
Present(data) == [k \in DOMAIN data |-> <<data[k]>>]

\* the body of `for reading in readings` up to the insert: the dict handed to
\* db_manager.insert_sensor_data
IngestedDict(data) ==
    LET metrics_dict ==
            calculate_all_metrics(data.chw_supply_temp, data.chw_return_temp,
                                  data.cdw_inlet_temp, data.cdw_outlet_temp,
                                  data.power_kw, data.current_r, data.current_y,
                                  data.current_b, <<data.chw_flow_gpm>>)
        updated == Update(Present(data), metrics_dict)
        scored == {"vibration_rms", "approach_temp", "phase_imbalance",
                   "kw_per_ton", "delta_t"}
        health_metrics == [k \in {m \in scored : ~IsNone(Get(updated, m))} |->
                              updated[k]]
        health_result == calculate(DefaultWeights, health_metrics)
    IN  ("validation_status" :> <<"accepted">>)
        @@ ("health_score" :> <<health_result.overall_score>>)
        @@ ("health_breakdown" :> <<health_result>>)
        @@ updated

\* one turn of the endpoint's `for reading in readings`; an insert that
\* raises is logged and the loop goes on with the next reading
IngestReading ==
    /\ batch.phase = "ingesting"
    /\ \E db_fails \in {FALSE} \cup {raises \in {TRUE} : batch.raised < MaxDbFailures} :
          LET entry == outputs[batch.self][batch.yielded[batch.ingested + 1].at]
              inserted == insert_sensor_data(db_rows, IngestedDict(entry.reading),
                                             db_fails)
          IN  /\ db_rows' = inserted.rows
              /\ calls' = calls \o <<"calculate_all_metrics", "calculate",
                                     "insert_sensor_data">>
              /\ batch' = [batch EXCEPT
                             !.ingested = @ + 1,
                             !.raised = IF inserted.raised THEN @ + 1 ELSE @,
                             !.phase = IF batch.ingested + 1 = Len(batch.yielded)
                                       THEN "done" ELSE "ingesting"]
    /\ UNCHANGED <<rng, gens, outputs, sensor_input, response, guardVars,
                   healthVars, scoreVars, physicsVars>>

\*--- GENERATOR SECTION END ---

(***************************************************************************)
(* Specifications, one per component                                       *)
(***************************************************************************)
GuardIdle ==
    /\ reading = <<>>
    /\ verdicts = [g \in Guards |-> NotCalled]

HealthIdle ==
    /\ weights = <<>>
    /\ metrics = <<>>
    /\ health = HealthNotCalled

IngestIdle ==
    /\ sensor_input = <<>>
    /\ response = IngestNotCalled
    /\ db_rows = <<>>
    /\ calls = <<>>

GenIdle ==
    /\ rng = 0
    /\ gens = <<>>
    /\ outputs = <<>>
    /\ batch = NoBatch

ScoreIdle ==
    /\ score_input = <<>>
    /\ score_output = NotScored

PhysicsIdle ==
    /\ physics_input = <<>>
    /\ physics_output = NotCalculated

InitGuard ==
    /\ reading \in Readings(MaxFields)
    /\ verdicts = [g \in Guards |-> NotCalled]
    /\ HealthIdle /\ IngestIdle /\ GenIdle /\ ScoreIdle /\ PhysicsIdle

NextGuard == \E g \in Guards : Validate(g)

SpecGuard == InitGuard /\ [][NextGuard]_vars

InitHealth ==
    /\ \E given \in WeightMaps : weights = EngineWeights(given)
    /\ metrics \in MetricMaps
    /\ health = HealthNotCalled
    /\ GuardIdle /\ IngestIdle /\ GenIdle /\ ScoreIdle /\ PhysicsIdle

NextHealth == Calculate

SpecHealth == InitHealth /\ [][NextHealth]_vars

InitIngest ==
    /\ sensor_input \in SensorInputs
    /\ response = IngestNotCalled
    /\ db_rows = <<>>
    /\ calls = <<>>
    /\ GuardIdle /\ HealthIdle /\ GenIdle /\ ScoreIdle /\ PhysicsIdle

NextIngest == Ingest

SpecIngest == InitIngest /\ [][NextIngest]_vars

\* the module-level generator starts seeded from the system's entropy
InitGen ==
    /\ rng \in {3, 12}
    /\ gens = <<>>
    /\ outputs = <<>>
    /\ batch = NoBatch
    /\ GuardIdle /\ HealthIdle /\ IngestIdle /\ ScoreIdle /\ PhysicsIdle

NextGen ==
    \/ \E seed \in Seeds : Construct(seed)
    \/ \E i \in Instances, scenario \in Scenarios, start_day \in StartDays :
          SetScenario(i, scenario, start_day)
    \/ \E i \in Instances : ClearScenario(i)
    \/ \E i \in Instances, hour \in Hours, day_number \in 0..MaxDay :
          GenerateReading(i, hour, day_number)

SpecGen == InitGen /\ [][NextGen]_vars

\* the scenarios a caller attaches before it asks for a batch, with the start
\* days it gives: durations 3 and 1, and the durations 0 and -1 that no
\* factory refuses
BatchScenarios ==
    {[scenario |-> ScenarioLibrary("tube_fouling", 3), start_day |-> 0],
     [scenario |-> ScenarioLibrary("electrical_issue", -1), start_day |-> 0]}
    \cup {[scenario |-> ScenarioLibrary("post_maintenance_misalignment", d),
           start_day |-> start_day] : d \in {0, 1, 3}, start_day \in StartDays}

\* the (scenario_type, days) handed to generate_scenario_data and the
\* (scenario_type, duration_days) of a request to the endpoint
DataRequests ==
    {[scenario_type |-> type, days |-> days] :
        type \in {t \in ScenarioTypes : DefaultDuration[t] <= MaxDataDays},
        days \in {None, Num(0)}}
    \cup {[scenario_type |-> type, days |-> Num(2)] : type \in ScenarioTypes}

EndpointRequests ==
    {[scenario_type |-> type, days |-> None] :
        type \in {t \in ScenarioTypes : DefaultDuration[t] <= MaxDataDays}}
    \cup {[scenario_type |-> type, days |-> Num(3)] : type \in ScenarioTypes}

\* generate_scenario_data and the endpoint build an instance of their own:
\* they are called while the first instance is as it was built
Untouched == Len(gens) = 1 /\ Len(outputs[1]) = 1

\* one instance, built without a seed
InitBatch ==
    /\ rng \in {3, 12}
    /\ gens = <<[asset_id |-> "CH-001", baseline |-> ChillerBaseline,
                 scenario |-> None, scenario_start_day |-> 0]>>
    /\ outputs = << <<[op |-> "__init__", random_seed |-> None]>> >>
    /\ batch = NoBatch
    /\ GuardIdle /\ HealthIdle /\ IngestIdle /\ ScoreIdle /\ PhysicsIdle

NextBatch ==
    \/ \E i \in Instances, s \in BatchScenarios :
          /\ batch = NoBatch
          /\ Operations(Len(gens)) <= MaxBatchOps
          /\ SetScenario(i, s.scenario, s.start_day)
    \/ \E i \in Instances :
          /\ batch = NoBatch
          /\ Operations(Len(gens)) <= MaxBatchOps
          /\ ClearScenario(i)
    \/ \E i \in Instances, start_time \in StartTimes,
          duration_days \in 0..MaxBatchDays, interval_minutes \in Intervals :
          GenerateBatch(i, start_time, duration_days, interval_minutes)
    \/ \E r \in DataRequests, start_time \in StartTimes,
          interval_minutes \in Intervals :
          Untouched /\ GenerateScenarioData(r.scenario_type, r.days, start_time, interval_minutes)
    \/ \E r \in EndpointRequests, start_time \in StartTimes,
          interval_minutes \in Intervals, ingest \in BOOLEAN :
          Untouched /\
          GenerateScenario(r.scenario_type, r.days, start_time, interval_minutes,
                           ingest)
    \/ YieldReading
    \/ Exhausted
    \/ IngestReading

SpecBatch == InitBatch /\ [][NextBatch]_vars

\* the loop of generate_batch is sequential code: a turn that can be taken
\* is taken, and so is the exit when the test fails.  A turn is enabled
\* exactly when its change of the locals is.
FairBatch ==
    /\ WF_batch(LoopTurn)
    /\ WF_batch(Exhausted)

SpecBatchFair == SpecBatch /\ FairBatch

InitScore ==
    /\ score_input \in [metric_name : DOMAIN thresholds, value : ScoreValues]
    /\ score_output = NotScored
    /\ GuardIdle /\ HealthIdle /\ IngestIdle /\ GenIdle /\ PhysicsIdle

NextScore == ScoreMetric

SpecScore == InitScore /\ [][NextScore]_vars

InitPhysics ==
    /\ physics_input \in [delta_t : DeltaTs, power_kw : Powers,
                           chw_flow_gpm : Flows]
    /\ physics_output = NotCalculated
    /\ GuardIdle /\ HealthIdle /\ IngestIdle /\ GenIdle /\ ScoreIdle

NextPhysics == CalculatePhysics

SpecPhysics == InitPhysics /\ [][NextPhysics]_vars

(***************************************************************************)
(* Properties of the validation guard (checked under SpecGuard)            *)
(***************************************************************************)
Called(g) == verdicts[g].outcome # "not_called"

ReturnedBy(g) == verdicts[g].outcome = "returned"

IsNumber(f) == f \in DOMAIN reading /\ ~IsNone(reading[f])

RuleIndices(issues, rule) == {i \in 1..Len(issues) : issues[i].rule_name = rule}

\* C1: in either mode a returned verdict is "rejected" iff its issue list
\* holds an error, "accepted_with_warnings" iff it holds no error but a
\* warning, "accepted" otherwise, and is_valid iff it is not "rejected".
C1_StatusMatchesIssues ==
    \A g \in Guards :
        ReturnedBy(g) =>
            LET v == verdicts[g]
                hasError == HasSeverity(v.issues, "error")
                hasWarning == HasSeverity(v.issues, "warning")
            IN  /\ v.status \in {"rejected", "accepted_with_warnings", "accepted"}
                /\ (v.status = "rejected") <=> hasError
                /\ (v.status = "accepted_with_warnings") <=> (~hasError /\ hasWarning)
                /\ (v.status = "accepted") <=> (~hasError /\ ~hasWarning)
                /\ v.is_valid <=> (v.status # "rejected")

\* C1 witness: the strict guard has rejected a reading that the normal guard
\* accepted with warnings, and a reading was accepted with an info issue.
C1_Witness ==
    /\ ReturnedBy("normal") /\ ReturnedBy("strict")
    /\ verdicts["normal"].status = "accepted_with_warnings"
    /\ verdicts["strict"].status = "rejected"
    /\ HasSeverity(verdicts["normal"].issues, "info")

ThermalPairRule(g, colder, warmer, rule) ==
    /\ (IsNumber(colder) /\ IsNumber(warmer)
            /\ reading[warmer][1] <= reading[colder][1])
         => /\ ReturnedBy(g)
            /\ ~verdicts[g].is_valid
            /\ verdicts[g].status = "rejected"
            /\ Cardinality(RuleIndices(verdicts[g].issues, rule)) = 1
            /\ \A i \in RuleIndices(verdicts[g].issues, rule) :
                    verdicts[g].issues[i].severity = "error"
    /\ (IsNumber(colder) # IsNumber(warmer))
         => /\ ReturnedBy(g)
            /\ RuleIndices(verdicts[g].issues, rule) = {}

\* C2: whenever supply and return (inlet and outlet) are both numbers and
\* return <= supply (outlet <= inlet), validate returns a rejected verdict
\* with exactly one chw_thermal_direction (cdw_thermal_direction) error; with
\* only one temperature of a pair no thermal-direction issue is raised.
C2_ThermalDirectionRejected ==
    \A g \in Guards :
        Called(g) =>
            /\ ThermalPairRule(g, "chw_supply_temp", "chw_return_temp",
                               "chw_thermal_direction")
            /\ ThermalPairRule(g, "cdw_inlet_temp", "cdw_outlet_temp",
                               "cdw_thermal_direction")

SameContent(a, b) ==
    /\ a.rule_name = b.rule_name
    /\ a.message = b.message
    /\ a.metric_name = b.metric_name
    /\ a.actual_value = b.actual_value

\* C3: for the same reading, a normal verdict "accepted_with_warnings" goes
\* with a strict verdict "rejected" holding the same issues in the same
\* order, every warning now an error and nothing else changed; a normal
\* verdict "accepted" or "rejected" goes with an identical strict verdict.
C3_StrictPromotesWarnings ==
    (ReturnedBy("normal") /\ Called("strict")) =>
        LET n == verdicts["normal"]
            s == verdicts["strict"]
        IN  /\ ReturnedBy("strict")
            /\ (n.status = "accepted_with_warnings") =>
                   /\ s.status = "rejected"
                   /\ ~s.is_valid
                   /\ Len(s.issues) = Len(n.issues)
                   /\ \A i \in 1..Len(n.issues) :
                          /\ SameContent(s.issues[i], n.issues[i])
                          /\ s.issues[i].severity =
                                IF n.issues[i].severity = "warning"
                                THEN "error" ELSE n.issues[i].severity
            /\ (n.status \in {"accepted", "rejected"}) =>
                   /\ s.status = n.status
                   /\ s.is_valid = n.is_valid
                   /\ s.issues = n.issues

\* C3 witness: both guards have run on a reading that the normal guard
\* accepted with a warning and an info issue.
C3_WitnessWarnings ==
    /\ ReturnedBy("normal") /\ ReturnedBy("strict")
    /\ verdicts["normal"].status = "accepted_with_warnings"
    /\ HasSeverity(verdicts["normal"].issues, "info")
    /\ HasSeverity(verdicts["normal"].issues, "warning")
    /\ Len(verdicts["normal"].issues) >= 3

\* C8: a reading with no power_kw key gets neither a power_load_consistency
\* nor a power_vibration_consistency issue (absent is not zero).
C8_AbsentPowerIsNotZero ==
    \A g \in Guards :
        (ReturnedBy(g) /\ "power_kw" \notin DOMAIN reading) =>
            /\ RuleIndices(verdicts[g].issues, "power_load_consistency") = {}
            /\ RuleIndices(verdicts[g].issues, "power_vibration_consistency") = {}

\* the reading without its None-valued keys
StripNone(data) == [k \in {f \in DOMAIN data : ~IsNone(data[f])} |-> data[k]]

\* C9: validate never raises, and a key whose value is None is treated
\* exactly like an absent key.
C9_NeverRaisesNoneIsAbsent ==
    \A g \in Guards :
        Called(g) =>
            /\ ReturnedBy(g)
            /\ verdicts[g] = validate(StripNone(reading), strict_mode(g))

\* the distance of a value beyond the bound it violates is more than 50%
\* of that bound's magnitude
BeyondHalfOfBound(value, bound) ==
    2 * Abs(value - bound) > Abs(bound)

TypicalRangeRules == {typical_ranges[k].rule : k \in 1..Len(typical_ranges)}

\* C20: for each metric with a typical range, the default guard raises
\* exactly one <metric>_typical_range issue for a present value outside the
\* range, a warning when the distance beyond the violated bound is more than
\* 50% of that bound's magnitude and an info otherwise, and none for a value
\* inside the range (bounds included); no typical-range issue is an error.
C20_TypicalRangeSeverity ==
    ReturnedBy("normal") =>
        LET issues == verdicts["normal"].issues
        IN  /\ \A k \in 1..Len(typical_ranges) :
                  LET range == typical_ranges[k]
                      value == Get(reading, range.metric)
                      raised == RuleIndices(issues, range.rule)
                      bound == IF value[1] < range.min THEN range.min
                               ELSE range.max
                  IN  IF IsNone(value) THEN raised = {}
                      ELSE IF range.min <= value[1] /\ value[1] <= range.max
                      THEN raised = {}
                      ELSE /\ Cardinality(raised) = 1
                           /\ \A i \in raised :
                                issues[i].severity =
                                    IF BeyondHalfOfBound(value[1], bound)
                                    THEN "warning" ELSE "info"
            /\ \A i \in 1..Len(issues) :
                  issues[i].rule_name \in TypicalRangeRules
                      => issues[i].severity # "error"

HasWarning(issues, rule) ==
    \E i \in RuleIndices(issues, rule) : issues[i].severity = "warning"

\* C21: in the default guard every reading whose kw_per_ton is present and
\* below 0.35 (0 included) gets a kw_per_ton_too_efficient warning, every
\* reading whose kw_per_ton is above 1.5 gets a kw_per_ton_very_poor
\* warning, and no such reading ends with the plain status "accepted".
C21_KwPerTonOutsideFlagged ==
    ReturnedBy("normal") =>
        LET kw_per_ton == Get(reading, "kw_per_ton")
            v == verdicts["normal"]
        IN  ~IsNone(kw_per_ton) =>
                /\ kw_per_ton[1] < 350 =>
                      HasWarning(v.issues, "kw_per_ton_too_efficient")
                /\ kw_per_ton[1] > 1500 =>
                      HasWarning(v.issues, "kw_per_ton_very_poor")
                /\ (kw_per_ton[1] < 350 \/ kw_per_ton[1] > 1500) =>
                      v.status # "accepted"

(***************************************************************************)
(* Properties of the health scorer (checked under SpecHealth)              *)
(***************************************************************************)
Scored_ == health # HealthNotCalled

\* the weighted metrics whose value is present (not absent, not None)
PresentWeighted ==
    {i \in 1..Len(weights) : ~IsNone(Get(metrics, weights[i].name))}

BreakdownNames == {health.breakdown[i].metric_name : i \in 1..Len(health.breakdown)}

\* C4: the breakdown holds exactly the weighted metrics whose value is
\* present, each with weighted_contribution = normalized_score x weight, and
\* overall_score is the sum of the contributions over the sum of the weights
\* of the breakdown (absent metrics are in neither sum).
C4_OverallIsRenormalisedMean ==
    Scored_ =>
        LET b == health.breakdown
        IN  /\ Len(b) = Cardinality(PresentWeighted)
            /\ BreakdownNames = {weights[i].name : i \in PresentWeighted}
            /\ \A i \in 1..Len(b) :
                   /\ b[i].weighted_contribution = b[i].normalized_score * b[i].weight
                   /\ \E j \in PresentWeighted :
                          /\ weights[j].name = b[i].metric_name
                          /\ weights[j].weight = b[i].weight
            /\ SumOf(b, "weight") > 0 =>
                   /\ health.overall_score.num = SumOf(b, "weighted_contribution")
                   /\ health.overall_score.den = SumOf(b, "weight")

\* C4 witness: a default engine has scored a map in which some weighted
\* metrics are present and others absent, with differing scores.
C4_WitnessPartialMetrics ==
    /\ Scored_
    /\ weights = DefaultWeights
    /\ Len(health.breakdown) = 3
    /\ health.breakdown[1].normalized_score < health.breakdown[3].normalized_score
    /\ health.overall_score.den < SumOf(DefaultWeights, "weight")

LowestScore(b) ==
    CHOOSE s \in {b[i].normalized_score : i \in 1..Len(b)} :
        \A i \in 1..Len(b) : s <= b[i].normalized_score

WithStatus(b, st) == {i \in 1..Len(b) : b[i].status = st}

\* C10: primary_concern is non-null iff the lowest normalized_score of the
\* breakdown is below 70, and then names the first breakdown entry, which
\* has that lowest score; with exactly one critical metric and all others
\* excellent it is the critical metric.
C10_PrimaryConcernIsWorstBelow70 ==
    Scored_ =>
        LET b == health.breakdown
        IN  /\ (b = <<>>) => IsNone(health.primary_concern)
            /\ (b # <<>>) =>
                   /\ ~IsNone(health.primary_concern)
                         <=> (LowestScore(b) < Points(70))
                   /\ ~IsNone(health.primary_concern) =>
                         /\ health.primary_concern = <<b[1].metric_name>>
                         /\ b[1].normalized_score = LowestScore(b)
                   /\ (Cardinality(WithStatus(b, "critical")) = 1
                          /\ Cardinality(WithStatus(b, "excellent")) = Len(b) - 1)
                         => \A i \in WithStatus(b, "critical") :
                                health.primary_concern = <<b[i].metric_name>>

\* C10 witness: one critical metric among excellent ones, which is not the
\* first of the weight map, has been named the primary concern.
C10_WitnessSingleCritical ==
    /\ Scored_
    /\ weights = DefaultWeights
    /\ Len(health.breakdown) = 5
    /\ Cardinality(WithStatus(health.breakdown, "critical")) = 1
    /\ Cardinality(WithStatus(health.breakdown, "excellent")) = 4
    /\ health.primary_concern = <<"approach_temp">>

DefaultEngine == weights = DefaultWeights

ConcernStatuses == {"fair", "poor", "critical"}

\* C11: with the default engine, the recommendations are non-empty only when
\* the worst metric's status is fair, poor or critical, and then they are the
\* static table's entry for (worst metric, its status); when every present
\* metric is excellent or good there are no recommendations and no primary
\* concern.
C11_RecommendationsFollowWorstStatus ==
    (Scored_ /\ DefaultEngine) =>
        LET b == health.breakdown
        IN  /\ health.recommendations # <<>> =>
                   /\ b # <<>>
                   /\ b[1].normalized_score = LowestScore(b)
                   /\ b[1].status \in ConcernStatuses
                   /\ health.recommendations
                         = recommendations_db[b[1].metric_name][b[1].status]
            /\ (\A i \in 1..Len(b) : b[i].status \in {"excellent", "good"}) =>
                   /\ health.recommendations = <<>>
                   /\ IsNone(health.primary_concern)

\* C11 witness: the default engine has scored several metrics, the worst of
\* them fair, and has returned recommendations.
C11_WitnessFairWorst ==
    /\ Scored_ /\ DefaultEngine
    /\ Len(health.breakdown) >= 2
    /\ health.breakdown[1].status = "fair"
    /\ health.recommendations # <<>>

Statuses == {"excellent", "good", "fair", "poor", "critical"}

AllStatus(b, st) == b # <<>> /\ \A i \in 1..Len(b) : b[i].status = st

\* C12: with the default engine, overall_score lies in [0, 100], the
\* category is excellent from 90, good from 75, fair from 55, poor from 30
\* and critical below, and when all the present metrics have the same status
\* the category is that status.
C12_CategoryFollowsThresholds ==
    (Scored_ /\ DefaultEngine) =>
        LET s == health.overall_score
            b == health.breakdown
            AtLeast(n) == s.num >= n * ScoreScale * s.den
        IN  /\ s.den > 0
            /\ AtLeast(0)
            /\ s.num <= 100 * ScoreScale * s.den
            /\ health.category = "excellent" <=> AtLeast(90)
            /\ health.category = "good" <=> (AtLeast(75) /\ ~AtLeast(90))
            /\ health.category = "fair" <=> (AtLeast(55) /\ ~AtLeast(75))
            /\ health.category = "poor" <=> (AtLeast(30) /\ ~AtLeast(55))
            /\ health.category = "critical" <=> ~AtLeast(30)
            /\ \A st \in Statuses : AllStatus(b, st) => health.category = st

\* C12 witness: four metrics, all good, have been scored by the default
\* engine.
C12_WitnessAllGood ==
    /\ Scored_ /\ DefaultEngine
    /\ Len(health.breakdown) = 4
    /\ AllStatus(health.breakdown, "good")

\* C13: when no weighted metric is present (an empty map, only names outside
\* the weight map, only None values), calculate returns the overall score
\* 50.0 exactly, an empty breakdown, no primary concern and no
\* recommendations.
C13_NeutralWhenNothingScorable ==
    (Scored_ /\ PresentWeighted = {}) =>
        /\ health.overall_score.num = 50 * ScoreScale * health.overall_score.den
        /\ health.breakdown = <<>>
        /\ IsNone(health.primary_concern)
        /\ health.recommendations = <<>>

\* C13 witness: the default engine has scored a map that holds a None value
\* and a name outside its weight map, and nothing else.
C13_WitnessOnlyUnscorable ==
    /\ Scored_ /\ DefaultEngine
    /\ DOMAIN metrics = {"vibration_rms", "cop"}
    /\ IsNone(metrics["vibration_rms"])
    /\ ~IsNone(metrics["cop"])

WeightedNames == {weights[i].name : i \in 1..Len(weights)}

\* the metrics map without the entries whose name the weight map lacks
WithoutUnknown(m) == [k \in DOMAIN m \cap WeightedNames |-> m[k]]

\* C14: entries whose name is not in the weight map change nothing: the
\* result for a map is the result for the map without them.
C14_UnknownNamesIgnored ==
    Scored_ => health = calculate(weights, WithoutUnknown(metrics))

\* C14 witness: a map with scored metrics and a valued entry outside the
\* weight map has been scored.
C14_WitnessUnknownEntry ==
    /\ Scored_
    /\ health.breakdown # <<>>
    /\ \E k \in DOMAIN metrics : k \notin WeightedNames /\ ~IsNone(metrics[k])

WeightIndex(name) == CHOOSE i \in 1..Len(weights) : weights[i].name = name

\* C15: the breakdown has exactly one entry for each weighted metric that is
\* present, in ascending order of normalized_score, entries of equal score
\* in the order of the weight map.
C15_BreakdownSortedStable ==
    Scored_ =>
        LET b == health.breakdown
        IN  /\ Len(b) = Cardinality(PresentWeighted)
            /\ \A j \in PresentWeighted :
                   Cardinality({i \in 1..Len(b) :
                                   b[i].metric_name = weights[j].name}) = 1
            /\ \A i, j \in 1..Len(b) :
                   i < j =>
                      /\ b[i].normalized_score <= b[j].normalized_score
                      /\ b[i].normalized_score = b[j].normalized_score
                            => WeightIndex(b[i].metric_name)
                                  < WeightIndex(b[j].metric_name)

\* C15 witness: a breakdown of at least three entries, two of them with the
\* same score and one with another.
C15_WitnessEqualScores ==
    /\ Scored_
    /\ Len(health.breakdown) >= 3
    /\ \E i, j \in 1..Len(health.breakdown) :
          /\ i < j
          /\ health.breakdown[i].normalized_score
                = health.breakdown[j].normalized_score
    /\ health.breakdown[1].normalized_score
          < health.breakdown[Len(health.breakdown)].normalized_score

(***************************************************************************)
(* Properties of the ingest pipeline (checked under SpecIngest)            *)
(***************************************************************************)
Ingested == response # IngestNotCalled

\* the pipeline's steps, numbered in the order the pipeline is to run them
StepOf(call) ==
    CASE call = "validate" -> 1
      [] call \in {"calculate_all_metrics", "calculate_phase_imbalance"} -> 2
      [] call = "calculate" -> 3
      [] call = "insert_sensor_data" -> 4

\* C5: the pipeline validates first and then derives, scores and stores in
\* that order, the store being its last step; a reading the guard rejects
\* stops it after validation: success is false, derived_metrics and
\* health_score are absent, no metric or score calculation was made and no
\* row was inserted.
C5_RejectedStopsAfterValidation ==
    Ingested =>
        /\ response.outcome = "returned"
        /\ response.validation.status = validate(model_dump(sensor_input), FALSE).status
        /\ calls # <<>> /\ calls[1] = "validate"
        /\ \A i, j \in 1..Len(calls) : i < j => StepOf(calls[i]) < StepOf(calls[j])
        /\ response.validation.status # "rejected"
              => calls[Len(calls)] = "insert_sensor_data"
        /\ response.validation.status = "rejected"
              => /\ response.success = FALSE
                 /\ response.derived_metrics = None
                 /\ response.health_score = None
                 /\ calls = <<"validate">>
                 /\ db_rows = <<>>

\* a rejected reading that carries everything the later steps would use
C5_WitnessRejectedComplete ==
    /\ Ingested
    /\ response.validation.status = "rejected"
    /\ \A f \in {"chw_supply_temp", "chw_return_temp", "cdw_outlet_temp",
                  "power_kw", "vibration_rms"} : ~IsNone(sensor_input[f])
    /\ calls = <<"validate">>

(***************************************************************************)
(* Properties of the scenario engine (checked under SpecGen)               *)
(***************************************************************************)
\* the scenario and start day instance i holds before the k-th entry of its
\* history
RECURSIVE ScenarioBefore(_, _)
ScenarioBefore(log, k) ==
    IF k = 1 THEN [scenario |-> None, scenario_start_day |-> 0]
    ELSE LET e == log[k - 1]
         IN  CASE e.op = "set_scenario" ->
                     [scenario |-> <<e.scenario>>, scenario_start_day |-> e.start_day]
               [] e.op = "clear_scenario" ->
                     [scenario |-> None, scenario_start_day |-> 0]
               [] OTHER -> ScenarioBefore(log, k - 1)

\* the generate_reading calls (instance, position in its history) made while
\* a scenario was active: attached, started and not yet past its duration
ActiveReadings ==
    {c \in {<<i, k>> : i \in Instances, k \in 1..MaxOps} :
        /\ c[2] <= Len(outputs[c[1]])
        /\ outputs[c[1]][c[2]].op = "generate_reading"
        /\ LET held == ScenarioBefore(outputs[c[1]], c[2])
               day == outputs[c[1]][c[2]].day_number
           IN  /\ held.scenario # None
               /\ day >= held.scenario_start_day
               /\ day - held.scenario_start_day < held.scenario[1].duration_days}

\* C6: while a scenario is active on a generator, every reading it generates
\* contains each metric of the scenario's modifier table (approach_temp,
\* kw_per_ton, delta_t and phase_imbalance included), and a metric that has a
\* base value carries modifier(base_value, progress, elapsed_scenario_day),
\* at the two decimals of a reading.
C6_EveryModifierApplied ==
    \A c \in ActiveReadings :
        LET e == outputs[c[1]][c[2]]
            held == ScenarioBefore(outputs[c[1]], c[2])
            scenario == held.scenario[1]
            scenario_day == e.day_number - held.scenario_start_day
            progress == Frac(scenario_day, scenario.duration_days)
        IN  \A metric_name \in scenario.modifiers :
                /\ metric_name \in DOMAIN e.reading
                /\ metric_name \in DOMAIN e.base =>
                      LET m == apply_modifier(scenario, metric_name,
                                              e.base[metric_name], progress,
                                              scenario_day)
                      IN  e.reading[metric_name] = RoundSum(m.whole, m.frac, 10)

\* what was asked of an instance: its history without what the calls returned
CallsOf(log) ==
    [k \in 1..Len(log) |->
        IF log[k].op = "generate_reading"
        THEN [op |-> "generate_reading", hour |-> log[k].hour,
              day_number |-> log[k].day_number]
        ELSE log[k]]

\* C7: two generators constructed with the same explicit seed and driven by
\* the same sequence of calls produce identical readings, whatever other
\* generators are constructed or used in between.
C7_SameSeedSameReadings ==
    \A a, b \in Instances :
        (/\ outputs[a][1].random_seed # None
         /\ CallsOf(outputs[a]) = CallsOf(outputs[b]))
            => outputs[a] = outputs[b]

(***************************************************************************)
(* Properties of the scoring curves (checked under SpecScore)              *)
(***************************************************************************)
ScoredOne == score_output # NotScored

LowerBetter(metric_name) == thresholds[metric_name].direction = "lower_better"

\* a threshold or a value in steps of ScoreStep thousandths
Steps(x) == x \div ScoreStep

\* the score falls linearly from `top` points by `drop` points while x runs
\* over the band (from, to]
FallsLinearly(score, top, drop, x, from, to) ==
    (Points(top) - score) * Steps(to - from) = Points(drop) * Steps(x - from)

\* C16: a lower-is-better metric with value >= 0 is scored by its band:
\* [0, excellent] excellent 100 -> 95, (excellent, good] good 90 -> 75,
\* (good, fair] fair 75 -> 55, (fair, poor] poor 55 -> 30, above poor
\* critical 30 - 30 * (value - poor) / poor floored at 0; the score is in
\* [0, 100] and no larger value scores higher.
C16_LowerBetterBands ==
    (ScoredOne /\ LowerBetter(score_input.metric_name) /\ score_input.value >= 0) =>
        LET th == thresholds[score_input.metric_name]
            v == score_input.value
            r == score_output
        IN  /\ r.score >= 0 /\ r.score <= Points(100)
            /\ v <= th.excellent =>
                  /\ r.status = "excellent"
                  /\ FallsLinearly(r.score, 100, 5, v, 0, th.excellent)
                  /\ r.score >= Points(95)
            /\ (th.excellent < v /\ v <= th.good) =>
                  /\ r.status = "good"
                  /\ FallsLinearly(r.score, 90, 15, v, th.excellent, th.good)
            /\ (th.good < v /\ v <= th.fair) =>
                  /\ r.status = "fair"
                  /\ FallsLinearly(r.score, 75, 20, v, th.good, th.fair)
            /\ (th.fair < v /\ v <= th.poor) =>
                  /\ r.status = "poor"
                  /\ FallsLinearly(r.score, 55, 25, v, th.fair, th.poor)
            /\ v > th.poor =>
                  /\ r.status = "critical"
                  /\ IF v >= 2 * th.poor
                     THEN r.score = 0
                     ELSE FallsLinearly(r.score, 30, 30, v, th.poor, 2 * th.poor)
            /\ \A w \in ScoreValues :
                  w >= v => _score_metric(score_input.metric_name, w).score <= r.score

\* C16 witness: a lower-is-better value between poor and twice poor was
\* scored critical with a score strictly between 0 and 30.
C16_WitnessCriticalDecay ==
    /\ ScoredOne
    /\ LowerBetter(score_input.metric_name)
    /\ score_input.value > thresholds[score_input.metric_name].poor
    /\ score_output.status = "critical"
    /\ score_output.score > 0
    /\ score_output.score < Points(30)

\* the bands the deviation of delta_t from its target is scored by
DeviationBands ==
    [excellent |-> 1000, good |-> 2000, fair |-> 3500, poor |-> 5000,
     unit |-> "degC", description |-> "Chilled water temperature differential"]

DeltaTTarget == 5500

Calculated == physics_output # NotCalculated

\* the flow the formula uses, in hundreds of GPM: 1000 GPM when not supplied
FlowHundreds ==
    IF physics_input.chw_flow_gpm = None THEN 10
    ELSE physics_input.chw_flow_gpm[1] \div (100 * Unit)

\* tons = flow * (delta_t * 9/5) * 500 / 12000 with tons in 1/TonUnit ton,
\* flow in hundreds of GPM and delta_t in thousandths: both sides are
\* multiplied by 12000 * 5 * Unit / TonUnit
Scaled(tons) == ((12000 \div TonUnit) * 5) * tons

FormulaScaled ==
    FlowHundreds * (9 * physics_input.delta_t) * ((500 * 100) \div Unit)

IsFormula(tons) == Scaled(tons) = FormulaScaled

BelowFloor(tons) == 10 * tons < TonUnit

\* C18 as stated: at least 0.1 always, exactly 0.1 when delta_t = 0, and
\* otherwise the formula itself.
C18_FormulaUnlessZeroDeltaT ==
    Calculated =>
        /\ ~BelowFloor(physics_output.cooling_tons)
        /\ physics_input.delta_t = 0 => 10 * physics_output.cooling_tons = TonUnit
        /\ physics_input.delta_t # 0 => IsFormula(physics_output.cooling_tons)

\* C18 amended: at least 0.1 always, exactly 0.1 when delta_t = 0, and
\* otherwise the formula when it gives at least 0.1 and 0.1 when it gives
\* less (negative delta_t, zero flow, a very small delta_t).
C18_FormulaFlooredAtTenth ==
    Calculated =>
        LET tons == physics_output.cooling_tons
        IN  /\ ~BelowFloor(tons)
            /\ physics_input.delta_t = 0 => 10 * tons = TonUnit
            /\ IF 10 * FormulaScaled >= Scaled(TonUnit)
               THEN IsFormula(tons)
               ELSE 10 * tons = TonUnit

\* C18 witness: a delta_t that is not 0 whose formula is below 0.1 ton was
\* calculated, and the result is the floor.
C18_WitnessFlooredNonZeroDeltaT ==
    /\ Calculated
    /\ physics_input.delta_t # 0
    /\ ~IsFormula(physics_output.cooling_tons)
    /\ 10 * physics_output.cooling_tons = TonUnit

\* a / b * c / d = n, with the common factors of a and d and of c and b
\* cancelled before the cross-multiplication (b, d > 0)
ProductIs(x, y, n) ==
    LET g == GCD(x.num, y.den)
        h == GCD(y.num, x.den)
    IN  (x.num \div g) * (y.num \div h) = n * (x.den \div h) * (y.den \div g)

\* C19: for power_kw > 0, kw_per_ton and cop from the same inputs are both
\* nonzero and cop * kw_per_ton = 3.517; for power_kw <= 0 both are 0; no
\* quotient has a zero divisor.
C19_CopTimesKwPerTon ==
    Calculated =>
        LET kw == physics_output.kw_per_ton
            cop == physics_output.cop
        IN  /\ kw.den > 0 /\ cop.den > 0
            /\ physics_input.power_kw > 0 =>
                  /\ kw.num # 0 /\ cop.num # 0
                  \* kw in thousandths times cop in hundredths
                  /\ ProductIs(kw, cop, KW_PER_TON * 100)
            /\ physics_input.power_kw <= 0 => kw.num = 0 /\ cop.num = 0

\* C19 witness: both ratios were calculated for a positive power from a
\* supplied flow and a delta_t whose cooling capacity is above the floor.
C19_WitnessPositivePower ==
    /\ Calculated
    /\ physics_input.power_kw > 0
    /\ physics_input.chw_flow_gpm \notin {None, Num(DEFAULT_CHW_FLOW_GPM)}
    /\ 10 * physics_output.cooling_tons > TonUnit
    /\ physics_output.kw_per_ton.num > 0

(***************************************************************************)
(* Further properties of the scenario engine                               *)
(***************************************************************************)
\* the generate_reading entries of every instance's history
ReadingEntries ==
    UNION {{outputs[i][k] : k \in {n \in 1..Len(outputs[i]) :
                                     outputs[i][n].op = "generate_reading"}} :
           i \in Instances}

\* C29: every baseline reading has a chilled-water delta-T of at least 2.0:
\* chw_return_temp - chw_supply_temp >= 2.0 at every load factor and for
\* every value of the noise.
C29_DeltaTAtLeastTwo ==
    \A e \in ReadingEntries :
        e.base.chw_return_temp - e.base.chw_supply_temp >= 2 * Unit


(***************************************************************************)
(* Further properties of the ingest pipeline (checked under SpecIngest)    *)
(***************************************************************************)
Supplied(fields) == \A f \in fields : ~IsNone(sensor_input[f])

ThermalAndPower ==
    {"chw_supply_temp", "chw_return_temp", "cdw_outlet_temp", "power_kw"}

\* C24: a DerivedMetrics result is returned only when chilled-water supply
\* and return, condenser outlet and power_kw are all present; every
\* accepted reading lacking one of them has derived_metrics absent.
C24_DerivedOnlyWithThermalAndPower ==
    (Ingested /\ response.outcome = "returned") =>
        (response.derived_metrics # None => Supplied(ThermalAndPower))

\* the sensor fields each scored metric is derived from
DerivedFrom ==
    [vibration_rms |-> {"vibration_rms"},
     approach_temp |-> {"cdw_outlet_temp"},
     phase_imbalance |-> {"current_r", "current_y", "current_b"},
     kw_per_ton |-> {"power_kw", "chw_supply_temp", "chw_return_temp"},
     delta_t |-> {"chw_supply_temp", "chw_return_temp"}]

\* C25: a metric enters the health score only if the sensor fields it is
\* derived from were supplied: every entry of the stored breakdown is of a
\* metric whose fields are present, so phase_imbalance is scored only when
\* all three phase currents are.
C25_ScoredOnlyFromSuppliedFields ==
    (Ingested /\ response.outcome = "returned") =>
        \A r \in 1..Len(db_rows) :
            "health_breakdown" \in DOMAIN db_rows[r] =>
                LET breakdown == db_rows[r].health_breakdown[1].breakdown
                IN  \A i \in 1..Len(breakdown) :
                        Supplied(DerivedFrom[breakdown[i].metric_name])

\* C27: whenever the pipeline rejects a reading, the message it surfaces is
\* that of the first issue of the guard's verdict, that issue is an error,
\* no warning or info issue precedes an error in the list, and the full
\* issue list of the verdict is returned alongside.
C27_RejectionSurfacesAnError ==
    (Ingested /\ response.outcome = "returned"
        /\ response.validation.status = "rejected") =>
        LET verdict == validate(model_dump(sensor_input), FALSE)
            issues == response.validation.issues
        IN  /\ issues = verdict.issues
            /\ issues # <<>>
            /\ issues[1].severity = "error"
            /\ response.message = <<"Data rejected: ">> \o issues[1].message
            /\ \A i, j \in 1..Len(issues) :
                  (i < j /\ issues[j].severity = "error")
                      => issues[i].severity = "error"

\* C27 witness: a rejected reading whose issue list also holds a warning or
\* an info issue.
C27_WitnessRejectedWithWarning ==
    /\ Ingested
    /\ response.outcome = "returned"
    /\ response.validation.status = "rejected"
    /\ \E i \in 1..Len(response.validation.issues) :
          response.validation.issues[i].severity \in {"warning", "info"}

(***************************************************************************)
(* Properties of generate_batch and its callers (checked under SpecBatch   *)
(* and SpecBatchFair)                                                      *)
(***************************************************************************)
Batching == batch # NoBatch

BatchReturned == Batching /\ batch.phase # "running"

\* the timestamps start_time + k * interval_minutes, k >= 0, that lie
\* strictly before start_time + duration_days
Due ==
    {t \in {batch.start_time + k * batch.interval_minutes :
                k \in 0..((batch.duration_days * MinutesPerDay)
                             \div batch.interval_minutes)} :
        t < batch.end_time}

\* the readings yielded so far are those of the first due timestamps, in
\* order
InStep ==
    /\ Len(batch.yielded) <= Cardinality(Due)
    /\ \A k \in 1..Len(batch.yielded) :
          /\ batch.yielded[k].timestamp
                = batch.start_time + (k - 1) * batch.interval_minutes
          /\ batch.yielded[k].timestamp \in Due

\* day_number is 0 at the first reading and from one reading to the next it
\* goes up by one when the calendar date differs and stays when it does not
DayCounted ==
    \A k \in 1..Len(batch.yielded) :
        LET prior_day == IF k = 1 THEN 0 ELSE batch.yielded[k - 1].day_number
            prior_date == IF k = 1 THEN DateOf(batch.start_time)
                          ELSE DateOf(batch.yielded[k - 1].timestamp)
        IN  batch.yielded[k].day_number =
                IF DateOf(batch.yielded[k].timestamp) # prior_date
                THEN prior_day + 1 ELSE prior_day

\* C30: for every start_time, duration_days >= 0 and interval_minutes >= 1,
\* generate_batch terminates, having yielded exactly one reading per timestamp
\* start_time + k * interval_minutes strictly before start_time +
\* duration_days, in increasing order; day_number starts at 0, never
\* decreases, and goes up by exactly one each time the calendar date changes
\* from one reading to the next.
C30_BatchTerminatesInStep ==
    /\ [](Batching => InStep /\ DayCounted)
    /\ [](BatchReturned => Len(batch.yielded) = Cardinality(Due))
    /\ (Batching /\ batch.phase = "running") ~> BatchReturned

\* C30 witness: a batch that did not start at midnight has returned after
\* three or more readings that span three calendar dates
C30_WitnessReturnedAcrossDates ==
    /\ BatchReturned
    /\ batch.start_time % MinutesPerDay # 0
    /\ Len(batch.yielded) >= 3
    /\ batch.yielded[Len(batch.yielded)].day_number >= 2

\* the instance the batch runs on
BatchSelf == gens[batch.self]

\* C22: with a scenario attached at start day s, every reading generated for
\* a day number >= s is modified by the scenario; in particular every reading
\* returned by generate_scenario_data, which attaches the scenario at day 0
\* and generates for the scenario's own duration from any time of day, has
\* the modifiers applied, the readings of the last generated day included.
C22_ModifiedFromStartDay ==
    Batching /\ BatchSelf.scenario # None =>
        \A k \in 1..Len(batch.yielded) :
            batch.yielded[k].day_number >= BatchSelf.scenario_start_day =>
                batch.yielded[k].progress # None

\* the history entry of the k-th reading of the batch
YieldedEntry(k) == outputs[batch.self][batch.yielded[k].at]

\* the values of a reading without the four keys generate_reading puts in
\* front of them
Measured(entry) == [key \in DOMAIN entry.base |-> entry.reading[key]]

\* C28: whenever generate_reading applies scenario modifiers, the progress
\* handed to them is (day_number - scenario_start_day) / duration_days and
\* 0 <= progress < 1, so the divisor is positive; a reading with day_number <
\* scenario_start_day, or generated with no scenario attached, or with a
\* scenario whose duration_days <= 0, is the base values unmodified.
C28_ProgressInUnitInterval ==
    Batching =>
        \A k \in 1..Len(batch.yielded) :
            LET progress == batch.yielded[k].progress
                day_number == batch.yielded[k].day_number
                scenario_day == day_number - BatchSelf.scenario_start_day
            IN  IF progress # None
                THEN /\ BatchSelf.scenario # None
                     /\ progress[1].num = scenario_day
                     /\ progress[1].den = BatchSelf.scenario[1].duration_days
                     /\ 0 <= progress[1].num
                     /\ progress[1].num < progress[1].den
                     /\ Measured(YieldedEntry(k))
                            = _apply_scenario(BatchSelf.scenario[1],
                                              YieldedEntry(k).base,
                                              progress[1], scenario_day)
                ELSE Measured(YieldedEntry(k)) = YieldedEntry(k).base

\* C28 witness: a scenario that starts at day 1 was not applied to the
\* reading of day 0 and was applied, at a progress above 0, to a later one
C28_WitnessAppliedAfterStartDay ==
    /\ Batching
    /\ BatchSelf.scenario # None
    /\ BatchSelf.scenario_start_day = 1
    /\ \E k \in 1..Len(batch.yielded) :
          batch.yielded[k].day_number = 0 /\ batch.yielded[k].progress = None
    /\ \E k \in 1..Len(batch.yielded) :
          batch.yielded[k].progress # None /\ batch.yielded[k].progress[1].num > 0

\* the scenario and start day instance i holds are those its history gives
\* it, the scenario as it was handed over; asset id and baseline are those it
\* was built with
HoldsLatest(i) ==
    LET latest == ScenarioBefore(outputs[i], Len(outputs[i]) + 1)
    IN  /\ gens[i].scenario = latest.scenario
        /\ gens[i].scenario_start_day = latest.scenario_start_day
        /\ gens[i].asset_id = "CH-001"
        /\ gens[i].baseline = ChillerBaseline

\* a step that changes an instance is a set_scenario or a clear_scenario on it
ChangedBySetOrClear ==
    \A i \in Instances :
        gens'[i] # gens[i] =>
            /\ Len(outputs'[i]) = Len(outputs[i]) + 1
            /\ outputs'[i][Len(outputs'[i])].op \in {"set_scenario", "clear_scenario"}

\* C23: the generator's asset id, baseline, attached scenario and scenario
\* start day are changed only by set_scenario and clear_scenario: after any
\* sequence of operations the scenario and start day are those of the most
\* recent set_scenario, or none and 0 after a clear_scenario or when there was
\* neither; generating a reading or a batch changes none of the four, and the
\* attached FailureScenario stays as it was handed over.
C23_StateChangedOnlyBySetAndClear ==
    /\ [](\A i \in Instances : HoldsLatest(i))
    /\ [][ChangedBySetOrClear]_vars

\* C23 witness: an instance was given a scenario, relieved of it, and then
\* yielded a reading of a batch
C23_WitnessReadingAfterSetAndClear ==
    /\ Batching
    /\ batch.yielded # <<>>
    /\ \E k \in 2..Len(outputs[batch.self]) :
          /\ outputs[batch.self][k - 1].op = "set_scenario"
          /\ outputs[batch.self][k].op = "clear_scenario"

\* the keys the endpoint adds to a generated reading before it stores it
AddedKeys ==
    {"delta_t", "cooling_tons", "kw_per_ton", "approach_temp", "phase_imbalance",
     "cop", "health_score", "health_breakdown", "validation_status"}

\* the generated reading a stored row was made from
GeneratedReading(row) == [key \in DOMAIN row \ AddedKeys |-> row[key]]

\* how many of the calls made were calls of `name`
CallCount(name) == Cardinality({k \in 1..Len(calls) : calls[k] = name})

\* C26: every generated reading the scenario-generation endpoint stores has
\* first been passed through the ValidationGuard, its stored validation_status
\* is the guard's verdict for it, and a generated reading the guard rejects
\* is not stored.
C26_GeneratedReadingsValidated ==
    Batching /\ batch.caller = "generate_scenario" =>
        /\ \A r \in 1..Len(db_rows) :
              LET verdict == validate(GeneratedReading(db_rows[r]), FALSE)
              IN  /\ verdict.is_valid
                  /\ db_rows[r].validation_status = <<verdict.status>>
        /\ CallCount("validate") >= CallCount("insert_sensor_data")

====
